---- MODULE Spec2Model ----
(***************************************************************************)
(* A model of the measurement and classification core of wasm-fingerprint  *)
(* (src/src/common.js, class WASMFingerprint).                             *)
(*                                                                         *)
(* Four parts of the class are modelled, each with its own specification   *)
(* over the module's variables (a part's variables keep their idle value   *)
(* under the other parts' specifications):                                 *)
(*   SpecCluster  _findPerformanceInflection, a pure function              *)
(*   SpecClassify generateFingerprint's derived bands, analyzeCPUType and  *)
(*                classifyWASM, pure functions of the fingerprint          *)
(*   SpecMem      runMemoryTests, the adaptive paired sampling loop        *)
(*   SpecWorker   profileWorkerPerformance / profileWorkerCapacity         *)
(*                                                                         *)
(* Numbers.  The code computes in IEEE doubles.  Durations are modelled as *)
(* integers (worker durations in ms, probe durations in tenths of a ms),   *)
(* ratios as fractions <<numerator, denominator>>, and every comparison    *)
(* of the code is decided exactly by cross-multiplication.  Where a double *)
(* can differ from the exact value at a boundary (Math.round/floor/ceil of *)
(* p * (H / n) when H / n has no finite binary expansion) the model takes  *)
(* both outcomes.                                                          *)
(***************************************************************************)
EXTENDS Integers, Sequences, FiniteSets, TLC

VARIABLES
    \* ---- _findPerformanceInflection (SpecCluster)
    clusterIn,        \* [results, hc]: the sorted valid durations and H
    clusterOut,       \* the returned analysis, or NoValue before the call
    \* ---- classifyWASM / analyzeCPUType (SpecClassify)
    fingerprint,      \* the fingerprint handed to the classifier
    calibration,      \* this._calibration as loadCalibration returns it
    classification,   \* classifyWASM's result, or NoValue
    cpuType,          \* analyzeCPUType's result, or NoValue
    \* ---- runMemoryTests (SpecMem)
    memPc,            \* position of the async function
    probes,           \* the durations the two probes can take
    sizes,            \* the sizes argument
    baseIterations,   \* the baseIterations argument
    sizeIdx,          \* index of the size being measured (for .. of)
    iters,            \* let iters
    guard,            \* let guard
    pairs,            \* let pairs
    pendingSeq,       \* measurePair's seq while suspended in nextTick
    memResults,       \* const results
    callOrder,        \* instrumentation: the probe calls made so far
    probeLog,         \* instrumentation: the calls of measurePair, in order
    \* ---- profileWorkerPerformance / profileWorkerCapacity (SpecWorker)
    wPc,              \* position of the async function
    wCall,            \* which method runs, with its environment
    workers,          \* every Worker constructed: "alive" / "terminated"
    tasks,            \* per worker: the state of its promise
    urlState,         \* the blob URL: "none" / "created" / "revoked"
    failureReason,    \* let failureReason
    wResult,          \* the value delivered to the caller, or NoValue
    workerProfile,    \* this._workerProfile
    \* ---- DeviceSignatureDatabase (SpecMatch)
    matchIn,          \* the method called on the database, with its arguments
    matchOut,         \* the value it returned, or NoValue before the call
    \* ---- loadCalibration (SpecCal)
    _calibration,     \* this._calibration: NoValue for null, or the table
    windowCal,        \* window.__WASM_CALIBRATION__
    loaders,          \* per call of loadCalibration: its position and value
    fetches,          \* instrumentation: the fetch requests issued so far
    \* ---- DeviceSignatureDatabase learning data (SpecLearn)
    learningData,     \* this.learningData: device name -> stored value
    learnClock,       \* Date.now() of the next signature
    importOut         \* what the last importLearningData returned

clusterVars  == <<clusterIn, clusterOut>>
classifyVars == <<fingerprint, calibration, classification, cpuType>>
memVars      == <<memPc, probes, sizes, baseIterations, sizeIdx, iters, guard, pairs,
                  pendingSeq, memResults, callOrder, probeLog>>
workerVars   == <<wPc, wCall, workers, tasks, urlState, failureReason,
                  wResult, workerProfile>>
matchVars    == <<matchIn, matchOut>>
calVars      == <<_calibration, windowCal, loaders, fetches>>
learnVars    == <<learningData, learnClock, importOut>>
vars == <<clusterVars, classifyVars, memVars, workerVars, matchVars, calVars,
          learnVars>>

NoValue == [none |-> TRUE]   \* a variable that holds no record yet
Null == -1                   \* null / undefined where a number is expected
NullStr == "null"            \* null where a string is expected

(***************************************************************************)
(* Arithmetic helpers                                                      *)
(***************************************************************************)
Max(a, b) == IF a >= b THEN a ELSE b
Min(a, b) == IF a <= b THEN a ELSE b
Abs(a) == IF a < 0 THEN -a ELSE a

\* s[a] + ... + s[b], and the same of the squares
RECURSIVE SumRange(_, _, _)
SumRange(s, a, b) == IF a > b THEN 0 ELSE s[b] + SumRange(s, a, b - 1)

RECURSIVE SumSqRange(_, _, _)
SumSqRange(s, a, b) == IF a > b THEN 0 ELSE s[b] * s[b] + SumSqRange(s, a, b - 1)

Sum(s) == SumRange(s, 1, Len(s))
SumSq(s) == SumSqRange(s, 1, Len(s))

RECURSIVE GCD(_, _)
GCD(a, b) == IF b = 0 THEN a ELSE GCD(b, a % b)

RECURSIVE IsPow2(_)
IsPow2(x) == IF x = 1 THEN TRUE ELSE IF x % 2 = 1 THEN FALSE ELSE IsPow2(x \div 2)

\* floor(sqrt(x)) by bisection on [lo, hi]
RECURSIVE SqrtIn(_, _, _)
SqrtIn(x, lo, hi) ==
    IF lo >= hi THEN lo
    ELSE LET mid == (lo + hi + 1) \div 2
         IN IF mid * mid <= x THEN SqrtIn(x, mid, hi) ELSE SqrtIn(x, lo, mid - 1)
ISqrt(x) == SqrtIn(x, 0, Min(x, 46340))

\* results.slice(a, b) of a 0-indexed array, as a 1-indexed sequence
Slice(s, a, b) == SubSeq(s, a + 1, Min(b, Len(s)))

IsSorted(s) == \A i \in 1..(Len(s) - 1) : s[i] <= s[i + 1]

(***************************************************************************)
(* _findPerformanceInflection(results, hardwareConcurrency)                *)
(* common.js 516-729.  results is the array of valid worker results,       *)
(* already sorted by duration (common.js 469); only the durations are      *)
(* read, so the array is modelled as the sequence of its durations.        *)
(***************************************************************************)
SignificantGapNum == 13      \* maxGap.gap >= 1.3, as 13/10
SignificantGapDen == 10
ClusterGapNum == 5           \* clusterGap >= 1.25, as 5/4
ClusterGapDen == 4

\* a / b >= c / d for positive b, d
FracGE(a, b, c, d) == a * d >= c * b

\* gaps[]: entry for JS index i (1 <= i < n) is results[i] / results[i-1]
GapNum(results, i) == results[i + 1]
GapDen(results, i) == results[i]

\* gaps.sort((a, b) => b.gap - a.gap)[0].index: the sort is stable, so the
\* first index carrying the largest gap comes first.  Scan of the indexes
\* i..n-1 with the best index so far.
RECURSIVE MaxGapScanFirst(_, _, _)
MaxGapScanFirst(results, i, best) ==
    IF i > Len(results) - 1 THEN best
    ELSE IF FracGE(GapNum(results, best), GapDen(results, best),
                   GapNum(results, i), GapDen(results, i))
         THEN MaxGapScanFirst(results, i + 1, best)
         ELSE MaxGapScanFirst(results, i + 1, i)

\* (mutant) among equal largest gaps the last index wins
RECURSIVE MaxGapScanLast(_, _, _)
MaxGapScanLast(results, i, best) ==
    IF i > Len(results) - 1 THEN best
    ELSE IF FracGE(GapNum(results, i), GapDen(results, i),
                   GapNum(results, best), GapDen(results, best))
         THEN MaxGapScanLast(results, i + 1, i)
         ELSE MaxGapScanLast(results, i + 1, best)

MaxGapIndex(results) == MaxGapScanFirst(results, 2, 1)

\* const significantGap = maxGap.gap >= 1.3
SignificantGap(results) ==
    LET i == MaxGapIndex(results)
    IN FracGE(GapNum(results, i), GapDen(results, i),
              SignificantGapNum, SignificantGapDen)

\* midPoint = sortedDurations[Math.floor(n / 2)]
MidPoint(results) == results[(Len(results) \div 2) + 1]

\* fastCluster.length: results.filter(r => r.duration <= midPoint)
FastClusterLen(results) ==
    LET mid == MidPoint(results)
    IN Cardinality({i \in 1..Len(results) : results[i] <= mid})

\* the clustering branch of common.js 570-575 is taken
\* the clustering test without the non-empty guard of line 566
ClusteringAppliesUnguarded(results) ==
    LET n  == Len(results)
        nf == FastClusterLen(results)
    IN FracGE(SumRange(results, nf + 1, n) * nf,
              SumRange(results, 1, nf) * (n - nf),
              ClusterGapNum, ClusterGapDen)

ClusteringApplies(results) ==
    LET n  == Len(results)
        nf == FastClusterLen(results)
        ns == n - nf
    IN /\ ns > 0
       /\ nf > 0
       \* mean(slow) / mean(fast) >= 1.25
       /\ FracGE(SumRange(results, nf + 1, n) * nf,
                 SumRange(results, 1, nf) * ns,
                 ClusterGapNum, ClusterGapDen)

\* (mutant) the clustering split never replaces the first choice
InflectionIndexNoClustering(results) ==
    IF SignificantGap(results) THEN MaxGapIndex(results)
    ELSE Len(results) \div 2

\* let inflectionIndex (common.js 559, 573)
InflectionIndex(results) ==
    IF ClusteringApplies(results) THEN FastClusterLen(results)
    ELSE IF SignificantGap(results) THEN MaxGapIndex(results)
    ELSE Len(results) \div 2

(* ---- scaling to the hardware concurrency, common.js 593-651 ----------- *)
(* rawScaledP = p * (H / n) is the exact p*H/n, or, when H/n is not a      *)
(* binary fraction, a double next to it: nudge -1 / 0 / 1 says on which    *)
(* side.  Only Math.round, floor, ceil at exact (half-)integers and the    *)
(* comparison of equal fractional parts can see the difference.            *)
Nudges(H, n) == IF IsPow2(n \div GCD(H, n)) THEN {0} ELSE {-1, 0, 1}

FPChoices(H, n) ==
    [np : Nudges(H, n), ne : Nudges(H, n),
     tie : IF Nudges(H, n) = {0} THEN {TRUE} ELSE BOOLEAN]

\* Math.round(x) = floor(x + 0.5) of x = num/n nudged by k
RoundN(num, n, k) ==
    IF (2 * num + n) % (2 * n) = 0 /\ k = -1
    THEN ((2 * num + n) \div (2 * n)) - 1
    ELSE (2 * num + n) \div (2 * n)

FloorN(num, n, k) ==
    IF num % n = 0 /\ k = -1 THEN (num \div n) - 1 ELSE num \div n

CeilN(num, n, k) ==
    IF num % n = 0 THEN (num \div n) + (IF k = 1 THEN 1 ELSE 0)
    ELSE (num \div n) + 1

\* x - Math.floor(x), in n-ths
FracN(num, n, k) == IF num % n = 0 /\ k = -1 THEN n ELSE num % n

\* pFractional >= eFractional, where a, b are the fractional parts in n-ths
FracPartGE(a, ka, b, kb, tie) ==
    IF a # b THEN a > b
    ELSE IF ka # kb THEN ka > kb
    ELSE IF ka = 0 THEN TRUE
    ELSE tie

\* pFractional <= eFractional
FracPartLE(a, ka, b, kb, tie) ==
    IF a # b THEN a < b
    ELSE IF ka # kb THEN ka < kb
    ELSE IF ka = 0 THEN TRUE
    ELSE tie

\* common.js 604-632: round both, then repair the sum on the side chosen by
\* the fractional parts.  Returns <<scaledPCoreCount, scaledECoreCount>>.
RoundToSum(p, e, H, n, fp) ==
    LET rp    == RoundN(p * H, n, fp.np)
        re    == RoundN(e * H, n, fp.ne)
        sum   == rp + re
        pFrac == FracN(p * H, n, fp.np)
        eFrac == FracN(e * H, n, fp.ne)
    IN IF sum = H THEN <<rp, re>>
       ELSE IF sum < H
            THEN IF FracPartGE(pFrac, fp.np, eFrac, fp.ne, fp.tie)
                 THEN <<CeilN(p * H, n, fp.np), H - CeilN(p * H, n, fp.np)>>
                 ELSE <<H - CeilN(e * H, n, fp.ne), CeilN(e * H, n, fp.ne)>>
            ELSE IF FracPartLE(pFrac, fp.np, eFrac, fp.ne, fp.tie)
                 THEN <<FloorN(p * H, n, fp.np), H - FloorN(p * H, n, fp.np)>>
                 ELSE <<H - FloorN(e * H, n, fp.ne), FloorN(e * H, n, fp.ne)>>

\* common.js 634-646: the three repairs after rounding
EnsureValid(c, H) ==
    LET c1 == IF c[1] < 1 THEN <<1, H - 1>> ELSE c
        c2 == IF c1[2] < 0 THEN <<H, 0>> ELSE c1
    IN IF c2[1] + c2[2] # H THEN <<c2[1], H - c2[1]>> ELSE c2

\* (mutant) both counts rounded independently, the sum never repaired
ScaleCountsRoundOnly(p, e, H, n, fp) ==
    IF n > H
    THEN <<RoundN(p * H, n, fp.np), RoundN(e * H, n, fp.ne)>>
    ELSE <<Min(p, H), Min(e, H - Min(p, H))>>

\* common.js 593-651
ScaleCounts(p, e, H, n, fp) ==
    IF n > H
    THEN EnsureValid(RoundToSum(p, e, H, n, fp), H)
    ELSE <<Min(p, H), Min(e, H - Min(p, H))>>

(* ---- known-topology snapping, common.js 653-690 ----------------------- *)
\* the snapping with the 4 + 4 window of line 683 one core wider
SnapCountsWide(c, H) ==
    IF H = 8 /\ c[1] >= 2 /\ c[1] <= 6 /\ c[2] >= 2 /\ c[2] <= 6
    THEN <<4, 4>> ELSE c

SnapCounts(c, H) ==
    LET p == c[1]
        e == c[2]
    IN IF H = 12
       THEN IF /\ p >= 5 /\ p <= 7 /\ e >= 5 /\ e <= 7
               /\ Abs(p - 6) <= 1 /\ Abs(e - 6) <= 1
            THEN <<6, 6>> ELSE c
       ELSE IF H = 10
       THEN IF p >= 3 /\ p <= 5 /\ e >= 5 /\ e <= 7
            THEN IF Abs(p - 4) <= 1 /\ Abs(e - 6) <= 1 THEN <<4, 6>> ELSE c
            ELSE IF p >= 5 /\ p <= 7 /\ e >= 3 /\ e <= 5
            THEN IF Abs(p - 6) <= 1 /\ Abs(e - 4) <= 1 THEN <<6, 4>> ELSE c
            ELSE c
       ELSE IF H = 8
       THEN IF p >= 3 /\ p <= 5 /\ e >= 3 /\ e <= 5 THEN <<4, 4>> ELSE c
       ELSE c

(* ---- confidence, common.js 692-712 ------------------------------------ *)
\* performanceGap = eCoreMean / pCoreMean as <<numerator, denominator>>
PerformanceGap(P, E) ==
    IF Len(E) > 0 THEN <<Sum(E) * Len(P), Sum(P) * Len(E)>> ELSE <<1, 1>>

GapConfidence(g) ==
    IF 2 * g[1] >= 3 * g[2] THEN 85
    ELSE IF 10 * g[1] >= 13 * g[2] THEN 70
    ELSE IF 5 * g[1] >= 6 * g[2] THEN 55
    ELSE 40

SqrtScale == 16
(* separation = (eCoreMean - pCoreMean) / (pCoreStd + eCoreStd + 1e-6) > 2.0 *)
(* With np = |P|, ne = |E|, A = np*SumSq(P) - Sum(P)^2 and B likewise for E, *)
(* the population deviations are sqrt(A)/np and sqrt(B)/ne, and the test is  *)
(*     Sum(E)*np - Sum(P)*ne  >  2 * (ne*sqrt(A) + np*sqrt(B))               *)
(* (1e-6 ms is below the resolution of the durations and cannot change a     *)
(* strict comparison of them).  The square roots are bracketed to 1/16; the  *)
(* set holds both outcomes when the bracket cannot decide.                   *)
SeparationOutcomes(P, E) ==
    LET np == Len(P)
        ne == Len(E)
        A  == np * SumSq(P) - Sum(P) * Sum(P)
        B  == ne * SumSq(E) - Sum(E) * Sum(E)
        N  == SqrtScale * (Sum(E) * np - Sum(P) * ne)
        fa == ISqrt(A * SqrtScale * SqrtScale)
        fb == ISqrt(B * SqrtScale * SqrtScale)
        ca == IF fa * fa = A * SqrtScale * SqrtScale THEN fa ELSE fa + 1
        cb == IF fb * fb = B * SqrtScale * SqrtScale THEN fb ELSE fb + 1
        lo == 2 * (ne * fa + np * fb)
        hi == 2 * (ne * ca + np * cb)
    IN IF N > hi THEN {TRUE}
       ELSE IF N <= lo THEN {FALSE}
       ELSE {TRUE, FALSE}

Confidence(P, E, separated) ==
    LET base == GapConfidence(PerformanceGap(P, E))
    IN IF Len(E) > 0 /\ separated THEN Min(95, base + 10) ELSE base

\* const actualHardwareConcurrency = hardwareConcurrency || ... || results.length
\* (navigator.hardwareConcurrency is what the caller passed already)
ActualHardwareConcurrency(results, hc) ==
    IF hc # Null /\ hc # 0 THEN hc ELSE Len(results)

\* The analysis returned when the split index is idx, for one resolution fp
\* of the floating-point boundary cases and one outcome of the separation
\* test.  The returned gaps (the top three, for display) are left out.
Analysis(results, hc, idx, fp, separated) ==
    LET n == Len(results)
        H == ActualHardwareConcurrency(results, hc)
        P == Slice(results, 0, idx)
        E == Slice(results, idx, n)
        c == SnapCounts(ScaleCounts(idx, n - idx, H, n, fp), H)
    IN [pCoreCount |-> c[1], eCoreCount |-> c[2],
        rawPCoreCount |-> idx, rawECoreCount |-> n - idx,
        performanceGap |-> PerformanceGap(P, E),
        confidence |-> Confidence(P, E, separated),
        method |-> IF SignificantGap(results) THEN "inflection_point"
                   ELSE "clustering",
        pCoreMean |-> <<Sum(P), idx>>,
        eCoreMean |-> IF n - idx > 0 THEN <<Sum(E), n - idx>>
                      ELSE <<Sum(P), idx>>,
        inflectionIndex |-> idx,
        hardwareConcurrency |-> H,
        scaled |-> n > H]

\* every value the call can return
_findPerformanceInflection(results, hc) ==
    IF Len(results) < 2
    THEN {[pCoreCount |-> Len(results), eCoreCount |-> 0,
           performanceGap |-> <<1, 1>>, confidence |-> 0,
           method |-> "insufficient_data"]}
    ELSE UNION {{Analysis(results, hc, idx, fp, sep) :
                    fp \in FPChoices(H, n),
                    sep \in SeparationOutcomes(Slice(results, 0, idx),
                                               Slice(results, idx, n))} :
                n \in {Len(results)},
                H \in {ActualHardwareConcurrency(results, hc)},
                idx \in {InflectionIndex(results)}}

(* ---- SpecCluster: the function applied to bounded inputs -------------- *)
HMax == 12
MaxProbe == 24                       \* maxProbe = 24
ClusterDurations == <<5, 8, 10>>     \* ms, ascending

\* k copies of v
Rep(v, k) == [i \in 1..k |-> v]

\* numWorkers = Math.min(maxProbe, Math.max(H * 2, H + 4)), common.js 398
NumWorkers(maxProbe, H) == Min(maxProbe, Max(H * 2, H + 4))

ClusterIdle == clusterIn = NoValue /\ clusterOut = NoValue

ClassifyIdle ==
    /\ fingerprint = NoValue /\ calibration = NoValue
    /\ classification = NoValue /\ cpuType = NoValue

MemIdle ==
    /\ memPc = "idle" /\ probes = [seq |-> {}, rnd |-> {}]
    /\ sizes = <<>> /\ baseIterations = 0
    /\ sizeIdx = 0 /\ iters = 0 /\ guard = 0
    /\ pairs = <<>> /\ pendingSeq = Null /\ memResults = <<>>
    /\ callOrder = <<>> /\ probeLog = <<>>

MatchIdle == matchIn = NoValue /\ matchOut = NoValue

CalIdle ==
    /\ _calibration = NoValue /\ windowCal = NoValue
    /\ loaders = <<>> /\ fetches = 0

LearnIdle == learningData = <<>> /\ learnClock = 0 /\ importOut = "none"

WorkerIdle ==
    /\ wPc = "idle" /\ wCall = NoValue /\ workers = <<>> /\ tasks = <<>>
    /\ urlState = "none" /\ failureReason = NullStr /\ wResult = NoValue
    /\ workerProfile = NoValue

\* The caller's arguments (common.js 463-472): H >= 2, between 2 and
\* numWorkers valid results, sorted ascending, durations positive.
ClusterInit ==
    /\ \E H \in 2..HMax : \E n \in 2..NumWorkers(MaxProbe, H) :
       \E c1 \in 0..n : \E c2 \in 0..(n - c1) :
          clusterIn =
            [results |-> Rep(ClusterDurations[1], c1)
                         \o Rep(ClusterDurations[2], c2)
                         \o Rep(ClusterDurations[3], n - c1 - c2),
             hc |-> H]
    /\ clusterOut = NoValue
    /\ ClassifyIdle /\ MemIdle /\ WorkerIdle /\ MatchIdle /\ CalIdle /\ LearnIdle

\* const inflection = this._findPerformanceInflection(validResults, H)
FindInflection ==
    /\ clusterOut = NoValue
    /\ clusterOut' \in _findPerformanceInflection(clusterIn.results, clusterIn.hc)
    /\ UNCHANGED <<clusterIn, classifyVars, memVars, workerVars, matchVars, calVars, learnVars>>

ClusterNext == FindInflection

SpecCluster == ClusterInit /\ [][ClusterNext]_vars

(***************************************************************************)
(* Rationals <<n, d>> with d > 0, kept in lowest terms.  <<0, 0>> stands   *)
(* for a missing number (null from generateFingerprint's avg, NaN from     *)
(* analyzeCPUType's avg) and <<1, 0>> for the string 'Too Fast'.           *)
(***************************************************************************)
\* (every operation binds its arguments, so that each is evaluated once)
R(n, d) == CHOOSE r \in UNION {{<<x \div g, y \div g>> : g \in {GCD(Abs(x), y)}} :
                            x \in {n}, y \in {d}} : TRUE
NoRatio == <<0, 0>>
IsNum(x) == x[2] # 0
RAdd(a, b) == CHOOSE r \in {R(x[1] * y[2] + y[1] * x[2], x[2] * y[2]) :
                         x \in {a}, y \in {b}} : TRUE
RSub(a, b) == CHOOSE r \in {R(x[1] * y[2] - y[1] * x[2], x[2] * y[2]) :
                         x \in {a}, y \in {b}} : TRUE
RMul(a, b) == CHOOSE r \in {R(x[1] * y[1], x[2] * y[2]) : x \in {a}, y \in {b}} : TRUE
RDiv(a, b) == CHOOSE r \in {IF y[1] > 0 THEN R(x[1] * y[2], x[2] * y[1])
                          ELSE R(-(x[1] * y[2]), -(x[2] * y[1])) :
                         x \in {a}, y \in {b}} : TRUE
RLT(a, b) == \E x \in {a}, y \in {b} : x[1] * y[2] < y[1] * x[2]
RLE(a, b) == \E x \in {a}, y \in {b} : x[1] * y[2] <= y[1] * x[2]
RMax(a, b) == CHOOSE r \in {IF RLT(x, y) THEN y ELSE x : x \in {a}, y \in {b}} : TRUE
RAbs(a) == CHOOSE r \in {<<Abs(x[1]), x[2]>> : x \in {a}} : TRUE
\* Math.round(x) = floor(x + 0.5)
RRound(a) == (2 * a[1] + a[2]) \div (2 * a[2])

(***************************************************************************)
(* The fingerprint: generateFingerprint, common.js 787-849                 *)
(* memoryResults maps a size in KB to the ratio recorded for it, a         *)
(* rational or TooFast; features holds the fields the classifier reads.    *)
(***************************************************************************)
TooFast == <<1, 0>>    \* the 'Too Fast' sentinel of runMemoryTests

RECURSIVE SumOver(_, _)
SumOver(f, S) ==
    IF S = {} THEN R(0, 1)
    ELSE LET k == CHOOSE x \in S : TRUE IN RAdd(f[k], SumOver(f, S \ {k}))

\* The average that counts a 'Too Fast' ratio as zero: the sentinel stays in
\* the divisor and an all-sentinel band averages to 0.
pickRatiosZero(memoryResults, keys) ==
    LET present == keys \cap DOMAIN memoryResults
        num     == {k \in present : IsNum(memoryResults[k])}
    IN IF present = {} THEN NoRatio
       ELSE RDiv(SumOver(memoryResults, num), R(Cardinality(present), 1))

\* avg(keys.map(k => memoryResults[k]?.ratio).filter(v => typeof v === 'number'))
\* with avg([]) = null
pickRatios(memoryResults, keys) ==
    LET num == {k \in keys \cap DOMAIN memoryResults : IsNum(memoryResults[k])}
    IN IF num = {} THEN NoRatio
       ELSE RDiv(SumOver(memoryResults, num), R(Cardinality(num), 1))

l1BandKeys == {32, 48, 64}
deepKeys(memoryResults) == {k \in DOMAIN memoryResults : k >= 256}

\* features.mem_ratio_l1_band, features.mem_ratio_deep (common.js 833-839)
DerivedBands(memoryResults) ==
    [mem_ratio_l1_band |-> pickRatios(memoryResults, l1BandKeys),
     mem_ratio_deep    |-> pickRatios(memoryResults, deepKeys(memoryResults))]

\* _safeOverallRatio(memoryResults), common.js 1059-1064
_safeOverallRatio(memoryResults) ==
    pickRatios(memoryResults, DOMAIN memoryResults)

(***************************************************************************)
(* analyzeCPUType(fingerprint), common.js 864-919                          *)
(***************************************************************************)
isAppleish(x)  == IsNum(x) /\ RLE(R(1, 2), x) /\ RLT(x, R(16, 10))
isIntellish(x) == IsNum(x) /\ RLE(R(16, 10), x) /\ RLE(x, R(5, 2))
isAMDish(x)    == IsNum(x) /\ RLT(R(5, 2), x)

\* Math.max(0, Math.min(95, confidence))
Clamp95(c) == Max(0, Min(95, c))

analyzeCPUType(fp) ==
    LET mr      == fp.memoryResults
        l1Band  == pickRatios(mr, l1BandKeys)
        deep    == pickRatios(mr, deepKeys(mr))
        overall == pickRatios(mr, DOMAIN mr)
        fc == IF isAppleish(l1Band) /\ (isAppleish(overall) \/ isAppleish(deep))
              THEN <<"Apple Silicon", 80>>
              ELSE IF isIntellish(l1Band) \/ isIntellish(overall)
              THEN <<"Intel/High-Performance Desktop CPU", 65>>
              ELSE IF isAMDish(overall) \/ isAMDish(deep)
              THEN <<"AMD/Mainstream CPU", 60>>
              ELSE IF IsNum(overall)
              THEN <<"Standard Computing Device", 50>>
              ELSE <<"Execution too fast or insufficient data", 30>>
    IN [family |-> fc[1], confidence |-> Clamp95(fc[2]),
        l1Band |-> l1Band, deepBand |-> deep, overall |-> overall]

(***************************************************************************)
(* classifyWASM(fingerprint), common.js 922-1057, given the table cal that *)
(* loadCalibration returned (NoValue for null).                            *)
(***************************************************************************)
\* +f.x || null
NumOrNull(v) == IF v = Null \/ v = 0 THEN Null ELSE v

isBetween(x, a, b) == x # Null /\ x >= a /\ x <= b

\* scoreOf(val, band, w), common.js 1000-1008; values in hundredths
scoreOf(val, band, w) ==
    IF band = NoValue \/ ~IsNum(val) THEN R(0, 1)
    ELSE LET min       == R(band.min, 100)
             max       == R(band.max, 100)
             median    == R(band.median, 100)
             coreWidth == RMax(R(1, 1000000), RSub(max, min))
             tolerance == RMax(RMax(RMul(coreWidth, R(3, 1)),
                                    RMul(RAbs(median), R(3, 10))),
                               R(15, 100))
             diff      == RAbs(RSub(val, median))
             score     == RMax(R(0, 1), RSub(R(1, 1), RDiv(diff, tolerance)))
         IN RMul(score, w)

\* scores[key], common.js 1010-1017
CalScore(b, l1Band, deepBand, overall) ==
    RAdd(RAdd(scoreOf(l1Band, b.l1, R(1, 2)), scoreOf(deepBand, b.deep, R(3, 10))),
         scoreOf(overall, b.overall, R(1, 5)))

\* const scores, common.js 1009-1017, as the pairs <<index, score>>; bands
\* is the sequence of the table's entries in key order.
CalScores(bands, l1Band, deepBand, overall) ==
    {<<j, CalScore(bands[j], l1Band, deepBand, overall)>> : j \in 1..Len(bands)}

\* Object.entries(scores).sort((a, b) => b[1] - a[1])[0]: the first key, in
\* the table's key order, that carries the largest score
BestEntry(scores) ==
    CHOOSE p \in scores :
        \A q \in scores : /\ RLE(q[2], p[2])
                          /\ q[1] < p[1] => RLT(q[2], p[2])


\* toUpperCase of the label parts that occur in the tables
ToUpperCase(w) ==
    CASE w = "apple" -> "APPLE"
      [] w = "intel" -> "INTEL"
      [] w = "amd"   -> "AMD"
      [] w = "m4"    -> "M4"
      [] OTHER       -> w

\* parts.slice(2).join('_') for labels of at most three parts
JoinFrom3(parts) == IF Len(parts) < 3 THEN "" ELSE parts[3]

\* The rule cascade up to the calibration override, common.js 926-995:
\* [family, generation, tier, confidence, evidence]
RuleCascade(fp) ==
    LET f        == fp.features
        l1kb     == NumOrNull(f.l1_kb)
        l2kb     == NumOrNull(f.l2_kb)
        l3mb     == NumOrNull(f.l3_mb)
        l1Band   == f.mem_ratio_l1_band
        deepBand == f.mem_ratio_deep
        overall  == _safeOverallRatio(fp.memoryResults)
        \* Math.round of a finite number, else null
        logicalCores == f.hardware_concurrency
        apple == /\ IsNum(l1Band) /\ RLT(l1Band, R(16, 10))
                 /\ IsNum(deepBand) /\ RLT(deepBand, R(16, 10))
        family == IF apple THEN "Apple"
                  ELSE IF IsNum(overall) /\ RLT(R(24, 10), overall) THEN "AMD/ARM-like"
                  ELSE IF IsNum(overall) THEN "Intel/AMD-like"
                  ELSE "Unknown"
        c0  == IF apple THEN 50 + 10 ELSE 50
        ev0 == IF apple THEN <<"Both L1/Deep ratio are low">>
               ELSE IF IsNum(overall) /\ RLT(R(24, 10), overall)
                    THEN <<"Overall Ratio on high side">>
               ELSE IF IsNum(overall) THEN <<"Overall Ratio medium">>
               ELSE <<>>
        \* ---- Apple subdivision
        ratio4m == IF 4096 \in DOMAIN fp.memoryResults
                   THEN fp.memoryResults[4096] ELSE NoRatio
        high4m  == IsNum(ratio4m) /\ RLE(R(16, 10), ratio4m)
        manyA   == logicalCores # Null /\ logicalCores # 0 /\ logicalCores >= 12
        genA  == IF isBetween(l1kb, 180, 200) THEN "M4"
                 ELSE IF isBetween(l1kb, 120, 140) THEN "M1/M2/M3" ELSE NullStr
        tierA1 == IF l2kb # Null /\ l2kb >= 12000 THEN "Pro/Max"
                  ELSE IF l2kb # Null /\ l2kb >= 6000 THEN "Base/Pro" ELSE NullStr
        tierA  == IF tierA1 = NullStr /\ (high4m \/ manyA) THEN "Pro/Max" ELSE tierA1
        cA    == c0 + (IF isBetween(l1kb, 180, 200) THEN 10 ELSE 0)
                    + (IF l2kb # Null /\ l2kb >= 12000 THEN 5 ELSE 0)
                    + (IF high4m THEN 5 ELSE 0)
                    + (IF manyA THEN 5 ELSE 0)
        evA   == ev0
                 \o (IF genA # NullStr THEN <<"L1 size">> ELSE <<>>)
                 \o (IF tierA1 # NullStr THEN <<"L2 size">> ELSE <<>>)
                 \o (IF high4m THEN <<"4MB Ratio indicates higher tier">> ELSE <<>>)
                 \o (IF manyA THEN <<"Concurrent Cores indicates high-end Apple chip">>
                     ELSE <<>>)
        \* ---- Intel/AMD subdivision
        tierO1 == IF l3mb # Null /\ l3mb >= 24 THEN "Desktop-High"
                  ELSE IF l3mb # Null /\ l3mb >= 12 THEN "Desktop/Mobile-High"
                  ELSE NullStr
        genO   == IF IsNum(overall) /\ RLT(R(23, 10), overall) THEN "Zen/ARM-high"
                  ELSE IF IsNum(overall) THEN "Modern-Core" ELSE NullStr
        manyO  == logicalCores # Null /\ logicalCores # 0 /\ logicalCores >= 16
        someO  == /\ ~manyO /\ logicalCores # Null /\ logicalCores # 0
                  /\ logicalCores >= 8 /\ tierO1 = NullStr
        tierO  == IF manyO /\ tierO1 = NullStr THEN "Desktop-High"
                  ELSE IF someO THEN "Performance" ELSE tierO1
        cO     == c0 + (IF manyO THEN 5 ELSE 0)
        evO    == ev0
                  \o (IF tierO1 # NullStr THEN <<"L3 size">> ELSE <<>>)
                  \o (IF manyO THEN <<"Concurrent Cores indicates desktop flagship">>
                      ELSE IF someO THEN <<"Concurrent Cores">> ELSE <<>>)
    IN IF apple
       THEN [family |-> family, generation |-> genA, tier |-> tierA,
             confidence |-> cA, evidence |-> evA]
       ELSE [family |-> family, generation |-> genO, tier |-> tierO,
             confidence |-> cO, evidence |-> evO]

\* The calibration override, common.js 997-1029, applied to the cascade's
\* result r.  cal.bands is the table as the sequence of its entries
\* [label parts, l1, deep, overall] in key order.
\* the override with the cascade's confidence dropped from line 1027
OverrideNoFloor(r, parts, best) ==
    IF RLT(R(5, 100), best)
    THEN [family |-> parts[1], generation |-> r.generation, tier |-> r.tier,
          confidence |-> Min(95, RRound(RMul(best, R(100, 1)))),
          evidence |-> r.evidence]
    ELSE r

\* common.js 1019-1028 for the best entry's label parts and score
OverrideWith(r, parts, best) ==
    IF RLT(R(5, 100), best)
    THEN [family |-> ToUpperCase(parts[1]),
          generation |-> IF Len(parts) >= 2 /\ parts[2] # ""
                         THEN ToUpperCase(parts[2]) ELSE r.generation,
          tier |-> IF JoinFrom3(parts) # "" THEN JoinFrom3(parts) ELSE r.tier,
          confidence |-> Min(95, Max(r.confidence,
                                     RRound(RMul(best, R(100, 1))))),
          evidence |-> Append(r.evidence, "calibration match")]
    ELSE r

CalibrationOverride(r, fp, cal) ==
    IF cal = NoValue \/ Len(cal.bands) = 0 THEN r
    ELSE CHOOSE x \in
            {OverrideWith(r, cal.bands[p[1]].parts, p[2]) :
                p \in {BestEntry(CalScores(cal.bands,
                                           fp.features.mem_ratio_l1_band,
                                           fp.features.mem_ratio_deep,
                                           _safeOverallRatio(fp.memoryResults)))}} :
            TRUE

\* The prefetcher bonus, common.js 1031-1042
PrefetchBonus(r, fp) ==
    LET deepBand == fp.features.mem_ratio_deep
        t64      == fp.features.stride_ms[1]
        t4k      == fp.features.stride_ms[2]
    IN IF /\ IsNum(deepBand) /\ t64 # Null /\ t4k # Null /\ t64 > 0 /\ t4k > 0
          /\ RLE(R(145, 100), deepBand) /\ RLE(deepBand, R(170, 100))
          /\ RLE(R(3, 10), R(t64, t4k)) /\ RLE(R(t64, t4k), R(8, 10))
       THEN [r EXCEPT !.confidence = Min(95, r.confidence + 10),
                      !.evidence = Append(r.evidence,
                                          "Matches M4 series characteristics"),
                      !.tier = IF r.family = "Apple" /\ r.tier = NullStr
                               THEN "Pro/Max" ELSE r.tier]
       ELSE r

\* The SIMD bonus, common.js 1044-1047
SIMDBonus(r, fp) ==
    IF fp.features.simd_supported
    THEN [r EXCEPT !.confidence = Min(95, r.confidence + 3),
                   !.evidence = Append(r.evidence, "WASM SIMD extension detected")]
    ELSE r

\* The worker-concurrency bonus, common.js 1049-1054
WorkerCapBonus(r, fp) ==
    LET workerCap    == fp.features.worker_spawn_cap
        logicalCores == fp.features.hardware_concurrency
    IN IF workerCap # Null /\ workerCap # 0 /\ workerCap >= 12
       THEN [r EXCEPT !.evidence = Append(r.evidence, "Worker concurrency limit"),
                      !.confidence = IF logicalCores = Null \/ logicalCores = 0
                                     THEN r.confidence + 2 ELSE r.confidence]
       ELSE r

classifyWASM(fp, cal) ==
    LET \* each stage works on the value of the stage before it
        r == CHOOSE x \in
                 {WorkerCapBonus(s, fp) :
                    s \in {SIMDBonus(p, fp) :
                       p \in {PrefetchBonus(c, fp) :
                          c \in {CalibrationOverride(b, fp, cal) :
                             b \in {RuleCascade(fp)}}}}} : TRUE
    IN [family |-> r.family, generation |-> r.generation, tier |-> r.tier,
        confidence |-> r.confidence, evidence |-> r.evidence,
        l1kb |-> NumOrNull(fp.features.l1_kb),
        l2kb |-> NumOrNull(fp.features.l2_kb),
        l3mb |-> NumOrNull(fp.features.l3_mb),
        l1Band |-> fp.features.mem_ratio_l1_band,
        deepBand |-> fp.features.mem_ratio_deep,
        overall |-> _safeOverallRatio(fp.memoryResults)]

(* ---- SpecClassify: the classifiers applied to bounded fingerprints ---- *)
ProfileSizes == {32, 256, 4096}                \* sizes measured, in KB
RatioValues  ==                                \* ratios recorded
    {TooFast, R(90, 100), R(150, 100), R(165, 100), R(260, 100)}
L1Values     == {Null, 192}                    \* features.l1_kb
L2Values     == {Null, 16000}                  \* features.l2_kb
L3Values     == {Null, 32}                     \* features.l3_mb
CoreValues   == {Null, 12, 16}                 \* features.hardware_concurrency
SpawnValues  == {0, 12}                        \* features.worker_spawn_cap
StrideValues == {<<0, 0>>, <<5, 10>>}          \* stride_ms[64], stride_ms[4096]

Band(lo, mid, hi) == [min |-> lo, median |-> mid, max |-> hi]

\* calibration.json as tools/calibrate.js writes it: per family the bands
\* of the l1, deep and overall ratios, in hundredths
CalibrationTables ==
    {[bands |-> <<[parts |-> <<"apple", "m4", "pro">>,
                   l1 |-> Band(80, 90, 100), deep |-> Band(80, 90, 100),
                   overall |-> Band(80, 90, 100)],
                  [parts |-> <<"intel">>,
                   l1 |-> Band(150, 165, 180), deep |-> Band(150, 165, 180),
                   overall |-> NoValue]>>]}

\* generateFingerprint: the features are derived from the measurements mr
Fingerprint(mr, l1, l2, l3, hc, cap, simd, st) ==
    [memoryResults |-> mr,
     features |-> [l1_kb |-> l1, l2_kb |-> l2, l3_mb |-> l3,
                   hardware_concurrency |-> hc, worker_spawn_cap |-> cap,
                   simd_supported |-> simd, stride_ms |-> st,
                   mem_ratio_l1_band |-> DerivedBands(mr).mem_ratio_l1_band,
                   mem_ratio_deep |-> DerivedBands(mr).mem_ratio_deep]]

\* the fingerprints over the measurements mr
FingerprintsOf(mr) ==
    {Fingerprint(mr, l1, l2, l3, hc, cap, simd, st) :
        l1 \in L1Values, l2 \in L2Values, l3 \in L3Values, hc \in CoreValues,
        cap \in SpawnValues, simd \in BOOLEAN, st \in StrideValues}

Fingerprints ==
    {Fingerprint(mr, l1, l2, l3, hc, cap, simd, st) :
        mr \in [ProfileSizes -> RatioValues], l1 \in L1Values, l2 \in L2Values,
        l3 \in L3Values, hc \in CoreValues, cap \in SpawnValues,
        simd \in BOOLEAN, st \in StrideValues}

ClassifyInit ==
    /\ fingerprint \in Fingerprints
    /\ calibration \in {NoValue} \cup CalibrationTables
    /\ classification = NoValue
    /\ cpuType = NoValue
    /\ ClusterIdle /\ MemIdle /\ WorkerIdle /\ MatchIdle /\ CalIdle /\ LearnIdle

\* const cpuType = this._wasmHelper.analyzeCPUType(fingerprint)
AnalyzeCPUType ==
    /\ fingerprint # NoValue
    /\ cpuType = NoValue
    /\ cpuType' = analyzeCPUType(fingerprint)
    /\ UNCHANGED <<fingerprint, calibration, classification,
                   clusterVars, memVars, workerVars, matchVars, calVars, learnVars>>

\* classification = await this._wasmHelper.classifyWASM(fingerprint)
ClassifyWASM ==
    /\ cpuType # NoValue
    /\ classification = NoValue
    /\ classification' = classifyWASM(fingerprint, calibration)
    /\ UNCHANGED <<fingerprint, calibration, cpuType,
                   clusterVars, memVars, workerVars, matchVars, calVars, learnVars>>

ClassifyNext == AnalyzeCPUType \/ ClassifyWASM

SpecClassify == ClassifyInit /\ [][ClassifyNext]_vars

(***************************************************************************)
(* runMemoryTests(sizes, baseIterations, targetRsd), common.js 35-106      *)
(* Probe durations are integers in tenths of a millisecond.  pairs holds   *)
(* the collected <<seq, rnd>> measurements in ascending order: statsOf and *)
(* the ratio median sort what they read, so the order of collection is     *)
(* not observable.  Of a results entry the size, the ratio and the         *)
(* iteration count are kept.                                               *)
(***************************************************************************)
TrustFloor == 4                    \* median < 0.4, in tenths of a ms
TargetRsdSq == R(49, 10000)        \* targetRsd = 0.07, squared
MaxIters == 20000                  \* const maxIters = 20000
MaxGuard == 8                      \* while (guard++ < 8)
MinPairs == 5                      \* pairs.length >= 5

PairLess(p, q) == p[1] < q[1] \/ (p[1] = q[1] /\ p[2] < q[2])

\* [...arr].sort((a, b) => a - b): the i-th smallest value at place i
SortNumbers(s) ==
    [i \in 1..Len(s) |->
        CHOOSE v \in {s[j] : j \in 1..Len(s)} :
            /\ Cardinality({j \in 1..Len(s) : s[j] < v}) < i
            /\ i <= Cardinality({j \in 1..Len(s) : s[j] <= v})]

\* the same for fractions
SortRatios(s) ==
    [i \in 1..Len(s) |->
        CHOOSE v \in {s[j] : j \in 1..Len(s)} :
            /\ Cardinality({j \in 1..Len(s) : RLT(s[j], v)}) < i
            /\ i <= Cardinality({j \in 1..Len(s) : RLE(s[j], v)})]

\* the canonical (ascending) order in which pairs is kept
SortPairs(s) ==
    [i \in 1..Len(s) |->
        CHOOSE v \in {s[j] : j \in 1..Len(s)} :
            /\ Cardinality({j \in 1..Len(s) : PairLess(s[j], v)}) < i
            /\ i <= Cardinality({j \in 1..Len(s) : PairLess(s[j], v) \/ s[j] = v})]

SeqOf(p) == p[1]
RndOf(p) == p[2]
IsPositive(x) == x > 0

\* pairs.map(p => p.seq), pairs.map(p => p.rnd), pairs.map(p => p.ratio)
SeqTimes(ps) == [i \in 1..Len(ps) |-> SeqOf(ps[i])]
RndTimes(ps) == [i \in 1..Len(ps) |-> RndOf(ps[i])]

\* const cut = Math.max(1, Math.floor(n * 0.15)), common.js 44
TrimCut(n) == Max(1, (n * 15) \div 100)

\* the end of sorted.slice(cut, Math.max(cut + 1, n - cut)), common.js 45
TrimEnd(n) == Max(TrimCut(n) + 1, n - TrimCut(n))

\* statsOf(arr), common.js 39-51.  The relative standard deviation is kept
\* as its square, std^2 / mean^2 = m (m Q - S^2) / (k S^2) for the m trimmed
\* values with sum S, sum of squares Q and k = max(1, m - 1); it is 1 when
\* the mean is NaN (nothing left after trimming) or not positive.
statsOf(arr) ==
    IF Len(arr) = 0
    THEN [mean |-> R(0, 1), rsdSq |-> R(1, 1), median |-> R(0, 1)]
    ELSE LET sorted  == SortNumbers(arr)
             n       == Len(sorted)
             median  == IF n % 2 = 1 THEN R(sorted[(n - 1) \div 2 + 1], 1)
                        ELSE R(sorted[n \div 2] + sorted[n \div 2 + 1], 2)
             trimmed == Slice(sorted, TrimCut(n), TrimEnd(n))
             m       == Len(trimmed)
             S       == Sum(trimmed)
             Q       == SumSq(trimmed)
             k       == Max(1, m - 1)
         IN [mean   |-> IF m = 0 THEN NoRatio ELSE R(S, m),
             rsdSq  |-> IF m > 0 /\ S > 0
                        THEN R(m * (m * Q - S * S), k * S * S) ELSE R(1, 1),
             median |-> median]

\* a mutation of PairRatio: the quotient is taken the other way round
PairRatioInverted(p) ==
    IF RndOf(p) > 0 /\ SeqOf(p) > 0 THEN R(SeqOf(p), RndOf(p)) ELSE NoRatio

\* measurePair's ratio: (rnd > 0 && seq > 0) ? rnd / seq : NaN
PairRatio(p) == IF RndOf(p) > 0 /\ SeqOf(p) > 0 THEN R(RndOf(p), SeqOf(p)) ELSE NoRatio

\* isFinite(x) && x > 0
FinitePositive(x) == IsNum(x) /\ x[1] > 0

\* tooFast and tooNoisy of the pairs collected so far, common.js 79-84
TooFastSoFar(ps) ==
    LET sStats == statsOf(SelectSeq(SeqTimes(ps), IsPositive))
        rStats == statsOf(SelectSeq(RndTimes(ps), IsPositive))
    IN RLT(sStats.median, R(TrustFloor, 1)) \/ RLT(rStats.median, R(TrustFloor, 1))

TooNoisySoFar(ps) ==
    LET sStats == statsOf(SelectSeq(SeqTimes(ps), IsPositive))
        rStats == statsOf(SelectSeq(RndTimes(ps), IsPositive))
    IN RLT(TargetRsdSq, sStats.rsdSq) \/ RLT(TargetRsdSq, rStats.rsdSq)

\* a mutation of Stable: the minimum number of pairs is not required
StableWithoutMinimum(ps) == ~TooFastSoFar(ps) /\ ~TooNoisySoFar(ps)

\* the break condition, common.js 85
Stable(ps) == ~TooFastSoFar(ps) /\ ~TooNoisySoFar(ps) /\ Len(ps) >= MinPairs

\* a mutation of GrowIters: the cap is not applied
GrowItersUncapped(i) == (i * 18) \div 10

\* iters = Math.min(maxIters, Math.floor(iters * 1.8)), common.js 86
GrowIters(i) == Min(MaxIters, (i * 18) \div 10)

\* the loop condition guard++ < 8, before the increment
LoopContinues(g) == g < MaxGuard

\* ratioMedian, common.js 92-94
RatioMedian(ps) ==
    LET ratios       == [i \in 1..Len(ps) |-> PairRatio(ps[i])]
        ratioSamples == SortRatios(SelectSeq(ratios, FinitePositive))
    IN IF Len(ratioSamples) > 0
       THEN ratioSamples[Len(ratioSamples) \div 2 + 1] ELSE TooFast

\* a mutation of ForOfNext: every other size is visited
ForOfNextSkipping(i) == i + 2

\* for (const size of sizes): the position after position i
ForOfNext(i) == i + 1

\* a mutation of CallsBeforeAwait: the random probe runs first, no tick
CallsRandomFirst == <<"evict", "rnd", "seq">>

\* measurePair up to its await, common.js 58-62: the eviction call, the
\* sequential probe, then nextTick() is called and awaited
CallsBeforeAwait == <<"evict", "seq", "nextTick">>
\* the same when the sequential probe throws
CallsUntilSeq == <<"evict", "seq">>
\* measurePair after the await, common.js 63: the random probe
CallsAfterAwait == <<"rnd">>

\* instrumentation of the probe calls: the positions (in sizes) the calls
\* were made for, a run of calls for one position recorded once
LogCall(log, i) == IF Len(log) > 0 /\ log[Len(log)] = i THEN log ELSE Append(log, i)

(* ---- SpecMem: the sampler over bounded probes ------------------------- *)
SizeLists == {<< >>, <<64>>, <<256, 16>>}   \* the sizes argument, in KB
BaseIterationsValues == {200, 8000}         \* the baseIterations argument
SeqDurations == {3, 10}                     \* t1 - t0, tenths of a ms
RndDurations == {0, 12}                     \* r1 - r0, tenths of a ms

MemInit ==
    /\ memPc = "call"
    /\ probes = [seq |-> SeqDurations, rnd |-> RndDurations]
    /\ sizes \in SizeLists
    /\ baseIterations \in BaseIterationsValues
    /\ sizeIdx = 0 /\ iters = 0 /\ guard = 0 /\ pairs = << >>
    /\ pendingSeq = Null /\ memResults = << >> /\ callOrder = << >>
    /\ probeLog = << >>
    /\ ClusterIdle /\ ClassifyIdle /\ WorkerIdle /\ MatchIdle /\ CalIdle /\ LearnIdle

\* const Module = await this.initWASM(); const results = {}
InitWASM ==
    /\ memPc = "call"
    /\ memPc' = "next"
    /\ UNCHANGED <<probeLog, probes, sizes, baseIterations, sizeIdx, iters, guard, pairs,
                   pendingSeq, memResults, callOrder>>
    /\ UNCHANGED <<clusterVars, classifyVars, workerVars, matchVars, calVars, learnVars>>

\* initWASM rethrows a loading failure: runMemoryTests rejects
InitWASMFails ==
    /\ memPc = "call"
    /\ memPc' = "rejected"
    /\ UNCHANGED <<probeLog, probes, sizes, baseIterations, sizeIdx, iters, guard, pairs,
                   pendingSeq, memResults, callOrder>>
    /\ UNCHANGED <<clusterVars, classifyVars, workerVars, matchVars, calVars, learnVars>>

\* the for .. of header and lines 70-71, 77: the next size is taken up
NextSize ==
    /\ memPc = "next"
    /\ sizeIdx < Len(sizes)
    /\ sizeIdx' = ForOfNext(sizeIdx)
    /\ iters' = baseIterations
    /\ pairs' = << >>
    /\ guard' = 0
    /\ memPc' = "measure"
    /\ UNCHANGED <<probeLog, probes, sizes, baseIterations, pendingSeq, memResults, callOrder>>
    /\ UNCHANGED <<clusterVars, classifyVars, workerVars, matchVars, calVars, learnVars>>

\* measurePair up to its await: the eviction call (its exception is
\* swallowed), then the sequential probe, then nextTick is awaited
MeasureSeq ==
    /\ memPc = "measure"
    /\ \E seq \in probes.seq : pendingSeq' = seq
    /\ callOrder' = LogCall(callOrder, sizeIdx)
    /\ probeLog' = probeLog \o CallsBeforeAwait
    /\ memPc' = "yield"
    /\ UNCHANGED <<probes, sizes, baseIterations, sizeIdx, iters, guard, pairs, memResults>>
    /\ UNCHANGED <<clusterVars, classifyVars, workerVars, matchVars, calVars, learnVars>>

\* measurePair after the tick: the random probe; the pair is pushed
MeasureRnd ==
    /\ memPc = "yield"
    /\ \E rnd \in probes.rnd :
          pairs' = SortPairs(Append(pairs, <<pendingSeq, rnd>>))
    /\ callOrder' = LogCall(callOrder, sizeIdx)
    /\ probeLog' = probeLog \o CallsAfterAwait
    /\ pendingSeq' = Null
    /\ memPc' = "loop"
    /\ UNCHANGED <<probes, sizes, baseIterations, sizeIdx, iters, guard, memResults>>
    /\ UNCHANGED <<clusterVars, classifyVars, workerVars, matchVars, calVars, learnVars>>

\* a probe throws (nothing catches it): runMemoryTests rejects
ProbeThrows ==
    /\ memPc \in {"measure", "yield"}
    /\ memPc' = "rejected"
    /\ callOrder' = LogCall(callOrder, sizeIdx)
    /\ probeLog' = probeLog \o (IF memPc = "measure" THEN CallsUntilSeq
                                 ELSE CallsAfterAwait)
    /\ UNCHANGED <<probes, sizes, baseIterations, sizeIdx, iters, guard, pairs,
                   pendingSeq, memResults>>
    /\ UNCHANGED <<clusterVars, classifyVars, workerVars, matchVars, calVars, learnVars>>

\* the loop body without break: the workload grows, another pair follows
Grow ==
    /\ memPc = "loop"
    /\ LoopContinues(guard)
    /\ ~Stable(pairs)
    /\ guard' = guard + 1
    /\ iters' = GrowIters(iters)
    /\ memPc' = "measure"
    /\ UNCHANGED <<probeLog, probes, sizes, baseIterations, sizeIdx, pairs, pendingSeq,
                   memResults, callOrder>>
    /\ UNCHANGED <<clusterVars, classifyVars, workerVars, matchVars, calVars, learnVars>>

\* the loop ends (break, or the guard is used up): lines 92-102
Finish ==
    /\ memPc = "loop"
    /\ ~LoopContinues(guard) \/ Stable(pairs)
    /\ guard' = guard + 1
    /\ memResults' = Append(memResults,
                            [size |-> sizes[sizeIdx],
                             ratio |-> RatioMedian(pairs),
                             iterations |-> iters])
    /\ memPc' = "next"
    /\ UNCHANGED <<probeLog, probes, sizes, baseIterations, sizeIdx, iters, pairs, pendingSeq,
                   callOrder>>
    /\ UNCHANGED <<clusterVars, classifyVars, workerVars, matchVars, calVars, learnVars>>

\* return results
ReturnResults ==
    /\ memPc = "next"
    /\ sizeIdx >= Len(sizes)
    /\ memPc' = "done"
    /\ UNCHANGED <<probeLog, probes, sizes, baseIterations, sizeIdx, iters, guard, pairs,
                   pendingSeq, memResults, callOrder>>
    /\ UNCHANGED <<clusterVars, classifyVars, workerVars, matchVars, calVars, learnVars>>

MemNext ==
    \/ InitWASM \/ InitWASMFails \/ NextSize \/ MeasureSeq \/ MeasureRnd
    \/ ProbeThrows \/ Grow \/ Finish \/ ReturnResults

SpecMem == MemInit /\ [][MemNext]_vars

(* ---- SpecProfile: generateFingerprint over constant probes ------------ *)
(* runMemoryTests() with its default arguments, each probe taking one      *)
(* constant duration; then the derived bands and the classifiers.          *)
DefaultSizes == <<16, 32, 64, 256>>    \* sizes = [16, 32, 64, 256]
DefaultBaseIterations == 200           \* baseIterations = 200
ConstantSeq == {3, 10}                 \* tenths of a ms
ConstantRnd == {12, 15}                \* tenths of a ms

\* memoryResults[`${size}KB`].ratio of the results object
MemoryResultsOf(res) ==
    [k \in {res[i].size : i \in 1..Len(res)} |->
        LET last == CHOOSE i \in 1..Len(res) :
                       /\ res[i].size = k
                       /\ \A j \in (i + 1)..Len(res) : res[j].size # k
        IN res[last].ratio]

ProfileInit ==
    /\ memPc = "call"
    /\ \E s \in ConstantSeq : \E r \in ConstantRnd :
          probes = [seq |-> {s}, rnd |-> {r}]
    /\ sizes = DefaultSizes
    /\ baseIterations = DefaultBaseIterations
    /\ sizeIdx = 0 /\ iters = 0 /\ guard = 0 /\ pairs = << >>
    /\ pendingSeq = Null /\ memResults = << >> /\ callOrder = << >>
    /\ probeLog = << >>
    /\ ClusterIdle /\ ClassifyIdle /\ WorkerIdle /\ MatchIdle /\ CalIdle /\ LearnIdle

\* generateFingerprint after runMemoryTests has returned, common.js 789-849
GenerateFingerprint ==
    /\ memPc = "done"
    /\ fingerprint = NoValue
    /\ fingerprint' \in FingerprintsOf(MemoryResultsOf(memResults))
    /\ UNCHANGED <<calibration, classification, cpuType>>
    /\ UNCHANGED <<clusterVars, memVars, workerVars, matchVars, calVars, learnVars>>

ProfileNext == MemNext \/ GenerateFingerprint \/ ClassifyNext

SpecProfile == ProfileInit /\ [][ProfileNext]_vars

(***************************************************************************)
(* profileWorkerPerformance (common.js 296-509) and profileWorkerCapacity  *)
(* (common.js 163-290).  An action is one run of the async function from   *)
(* one await to the next, or one event delivered to a pending promise.     *)
(* workers holds every Worker constructed by the call in hand, tasks the   *)
(* promise made for each.  An event that reaches a promise already settled *)
(* changes nothing (LateMessage).  Latencies and the statistics over them  *)
(* are left out of the capacity profile.                                   *)
(***************************************************************************)
\* Error objects, kept apart from the strings the code reports
ErrConstructor      == "Error{Worker constructor failed}"
ErrDispatch         == "Error{postMessage failed}"
ErrHandshakeTimeout == "Error{worker handshake timeout}"
ErrWorker           == "Error{worker error}"
ErrorObjects == {ErrConstructor, ErrDispatch, ErrHandshakeTimeout, ErrWorker}

\* err.message || String(err)
MessageOf(e) ==
    CASE e = ErrConstructor      -> "Worker constructor failed"
      [] e = ErrDispatch         -> "postMessage failed"
      [] e = ErrHandshakeTimeout -> "worker handshake timeout"
      [] e = ErrWorker           -> "worker error"
      [] OTHER                   -> e

\* the promise of one worker and the value it resolved with; log records
\* the events handled for the task ("result", "error", "timeout"), in order
Pending == [state |-> "pending", duration |-> Null, error |-> "", log |-> << >>]
Rejected == [state |-> "rejected", duration |-> Null, error |-> "", log |-> << >>]
ResultOf(d) == [state |-> "resolved", duration |-> d, error |-> "", log |-> << >>]
ErrorOf(msg) == [state |-> "resolved", duration |-> Null, error |-> msg, log |-> << >>]

\* a mutation of Settle: a later resolve replaces the value of the promise
SettleAgain(p, v) == v

\* resolve(v) on the promise p: only a pending promise takes the value
Settle(p, v) == IF p.state = "pending" THEN v ELSE p

\* a handler of the task (onmessage, onerror, the timer) runs: resolve(v)
Deliver(p, event, v) == [Settle(p, v) EXCEPT !.log = Append(p.log, event)]

\* a mutation of InsufficientCores: only a missing value is refused
InsufficientCoresMissingOnly(hc) == hc = Null

\* !hardwareConcurrency || hardwareConcurrency < 2, common.js 309
InsufficientCores(hc) == hc = Null \/ hc = 0 \/ hc < 2

\* upperBound of profileWorkerCapacity, common.js 185
UpperBound(maxProbe, hc) ==
    Max(1, Min(maxProbe, IF hc # Null /\ hc # 0 THEN Max(hc * 2, hc + 2)
                         ELSE maxProbe))

\* r => r.duration !== null && !r.error, common.js 463
IsValidResult(r) == r.duration # Null /\ r.error = ""

\* validResults, sorted by duration: common.js 463, 469
ValidDurations(ts) ==
    LET valid == SelectSeq(ts, IsValidResult)
    IN SortNumbers([i \in 1..Len(valid) |-> valid[i].duration])

\* a mutation of EnoughValid: one valid result is taken for enough
EnoughValidOne(n) == n >= 1

\* the negation of validResults.length < 2, common.js 465
EnoughValid(n) == n >= 2

\* a mutation of Cleanup: the workers are told to stop but not terminated
CleanupStopOnly(ws) == ws

\* the finally block: every worker of the array is terminated
Cleanup(ws) == [i \in 1..Len(ws) |-> "terminated"]

\* the value returned after the try statement, common.js 503-508
Unavailable(hc, reason) ==
    [available |-> FALSE, hardwareConcurrency |-> hc,
     failureReason |-> IF reason = NullStr \/ reason = ""
                       THEN "Unknown error" ELSE reason,
     results |-> << >>]

\* the value returned from the try block, common.js 476-486
Available(hc, durations, inflection) ==
    [available |-> TRUE, hardwareConcurrency |-> hc,
     totalWorkers |-> Len(durations), results |-> durations,
     analysis |-> inflection,
     pCores |-> inflection.pCoreCount, eCores |-> inflection.eCoreCount,
     performanceGap |-> inflection.performanceGap,
     confidence |-> inflection.confidence]

\* this._workerProfile as profileWorkerCapacity sets it, common.js 279-287
CapacityProfile(hc, spawned, tested, reason) ==
    [available |-> TRUE, hardwareConcurrency |-> hc, spawned |-> spawned,
     tested |-> tested,
     failureReason |-> IF reason = NullStr \/ reason = ""
                       THEN NullStr ELSE MessageOf(reason)]

(* ---- SpecWorker: the two methods in a bounded environment ------------- *)
WorkerProbes == {1, 4}                \* the maxProbe argument
ConcurrencyValues == {Null, 1, 2, 3}  \* navigator.hardwareConcurrency
WorkerDurations == {5, 10}            \* ms a worker reports
ErrorMessages == {"", "script error"} \* event.data.error / err.message

WorkerCalls ==
    [method : {"performance", "capacity"}, workerApi : BOOLEAN,
     hc : ConcurrencyValues, maxProbe : WorkerProbes]

WorkerInit ==
    /\ wPc = "call"
    /\ wCall \in WorkerCalls
    /\ workers = << >> /\ tasks = << >> /\ urlState = "none"
    /\ failureReason = NullStr /\ wResult = NoValue /\ workerProfile = NoValue
    /\ ClusterIdle /\ ClassifyIdle /\ MemIdle /\ MatchIdle /\ CalIdle /\ LearnIdle

IsPerformance == wCall # NoValue /\ wCall.method = "performance"
IsCapacity == wCall # NoValue /\ wCall.method = "capacity"

\* typeof Worker === 'undefined', common.js 297-303
PerfNoWorkerAPI ==
    /\ wPc = "call" /\ IsPerformance
    /\ ~wCall.workerApi
    /\ wResult' = [available |-> FALSE,
                   failureReason |-> "Worker API unavailable",
                   hardwareConcurrency |-> wCall.hc]
    /\ wPc' = "returned"
    /\ UNCHANGED <<wCall, workers, tasks, urlState, failureReason, workerProfile>>
    /\ UNCHANGED <<clusterVars, classifyVars, memVars, matchVars, calVars, learnVars>>

\* !hardwareConcurrency || hardwareConcurrency < 2, common.js 309-315
PerfInsufficientCores ==
    /\ wPc = "call" /\ IsPerformance
    /\ wCall.workerApi
    /\ InsufficientCores(wCall.hc)
    /\ wResult' = [available |-> FALSE,
                   failureReason |-> "Insufficient cores for P/E core detection",
                   hardwareConcurrency |-> wCall.hc]
    /\ wPc' = "returned"
    /\ UNCHANGED <<wCall, workers, tasks, urlState, failureReason, workerProfile>>
    /\ UNCHANGED <<clusterVars, classifyVars, memVars, matchVars, calVars, learnVars>>

\* common.js 371-460, up to the await: the blob URL is created, workers are
\* constructed until one constructor throws (spawned < numWorkers), and a
\* promise is made for each; a postMessage that throws rejects its promise
\* (thrower is the worker concerned, 0 for none).
PerfStart ==
    /\ wPc = "call" /\ IsPerformance
    /\ wCall.workerApi
    /\ ~InsufficientCores(wCall.hc)
    /\ \E spawned \in 0..NumWorkers(wCall.maxProbe, wCall.hc) :
       \E thrower \in 0..spawned :
          /\ workers' = [i \in 1..spawned |-> "alive"]
          /\ tasks' = [i \in 1..spawned |->
                          IF i = thrower THEN Rejected ELSE Pending]
          /\ failureReason' =
                IF spawned < NumWorkers(wCall.maxProbe, wCall.hc)
                THEN ErrConstructor ELSE NullStr
    /\ urlState' = "created"
    /\ wPc' = "await"
    /\ UNCHANGED <<wCall, wResult, workerProfile>>
    /\ UNCHANGED <<clusterVars, classifyVars, memVars, matchVars, calVars, learnVars>>

\* no promise is rejected: Promise.all is still waiting
Awaiting ==
    /\ wPc = "await" /\ IsPerformance
    /\ \A i \in 1..Len(tasks) : tasks[i].state # "rejected"

\* worker.onmessage with data.type === 'result'
TaskResult ==
    /\ Awaiting
    /\ \E i \in 1..Len(tasks) : \E d \in WorkerDurations :
          /\ tasks[i].state = "pending"
          /\ tasks' = [tasks EXCEPT ![i] = Deliver(tasks[i], "result", ResultOf(d))]
    /\ UNCHANGED <<wPc, wCall, workers, urlState, failureReason, wResult,
                   workerProfile>>
    /\ UNCHANGED <<clusterVars, classifyVars, memVars, matchVars, calVars, learnVars>>

\* worker.onmessage with data.type === 'error' (data.error may be empty)
\* and worker.onerror (err.message || String(err) is not empty)
TaskError ==
    /\ Awaiting
    /\ \E i \in 1..Len(tasks) : \E msg \in ErrorMessages :
          /\ tasks[i].state = "pending"
          /\ tasks' = [tasks EXCEPT ![i] = Deliver(tasks[i], "error", ErrorOf(msg))]
    /\ UNCHANGED <<wPc, wCall, workers, urlState, failureReason, wResult,
                   workerProfile>>
    /\ UNCHANGED <<clusterVars, classifyVars, memVars, matchVars, calVars, learnVars>>

\* the 30 s timer of a task fires
TaskTimeout ==
    /\ Awaiting
    /\ \E i \in 1..Len(tasks) :
          /\ tasks[i].state = "pending"
          /\ tasks' = [tasks EXCEPT ![i] = Deliver(tasks[i], "timeout",
                                                   ErrorOf("Worker timeout"))]
    /\ UNCHANGED <<wPc, wCall, workers, urlState, failureReason, wResult,
                   workerProfile>>
    /\ UNCHANGED <<clusterVars, classifyVars, memVars, matchVars, calVars, learnVars>>

\* the message of a worker arrives after its timer has fired, while
\* Promise.all still waits for another task: onmessage runs clearTimeout
\* and resolve on the settled promise (the script posts one message for a
\* compute request, common.js 357-364)
LateMessage ==
    /\ Awaiting
    /\ \E j \in 1..Len(tasks) : tasks[j].state = "pending"
    /\ \E i \in 1..Len(tasks) : \E d \in WorkerDurations :
          /\ tasks[i].log = <<"timeout">>
          /\ tasks' = [tasks EXCEPT ![i] = Deliver(tasks[i], "result", ResultOf(d))]
    /\ UNCHANGED <<wPc, wCall, workers, urlState, failureReason, wResult,
                   workerProfile>>
    /\ UNCHANGED <<clusterVars, classifyVars, memVars, matchVars, calVars, learnVars>>

\* Promise.all rejects: catch, finally, and the return after the try
PerfDispatchFailed ==
    /\ wPc = "await" /\ IsPerformance
    /\ \E i \in 1..Len(tasks) : tasks[i].state = "rejected"
    /\ failureReason' = MessageOf(ErrDispatch)
    /\ workers' = Cleanup(workers)
    /\ urlState' = "revoked"
    /\ wResult' = Unavailable(wCall.hc, failureReason')
    /\ wPc' = "returned"
    /\ UNCHANGED <<wCall, tasks, workerProfile>>
    /\ UNCHANGED <<clusterVars, classifyVars, memVars, matchVars, calVars, learnVars>>

\* Promise.all resolves with fewer than 2 valid results: common.js 463-466,
\* finally, and the return after the try
PerfInsufficientResults ==
    /\ Awaiting
    /\ \A i \in 1..Len(tasks) : tasks[i].state = "resolved"
    /\ ~EnoughValid(Len(ValidDurations(tasks)))
    /\ failureReason' = "Insufficient valid results for analysis"
    /\ workers' = Cleanup(workers)
    /\ urlState' = "revoked"
    /\ wResult' = Unavailable(wCall.hc, failureReason')
    /\ wPc' = "returned"
    /\ UNCHANGED <<wCall, tasks, workerProfile>>
    /\ UNCHANGED <<clusterVars, classifyVars, memVars, matchVars, calVars, learnVars>>

\* Promise.all resolves with at least 2 valid results: common.js 467-486,
\* finally, and the value of the return statement is delivered
PerfAnalysed ==
    /\ Awaiting
    /\ \A i \in 1..Len(tasks) : tasks[i].state = "resolved"
    /\ EnoughValid(Len(ValidDurations(tasks)))
    /\ \E validResults \in {ValidDurations(tasks)} :
       \E inflection \in _findPerformanceInflection(validResults, wCall.hc) :
          wResult' = Available(wCall.hc, validResults, inflection)
    /\ workers' = Cleanup(workers)
    /\ urlState' = "revoked"
    /\ wPc' = "returned"
    /\ UNCHANGED <<wCall, tasks, failureReason, workerProfile>>
    /\ UNCHANGED <<clusterVars, classifyVars, memVars, matchVars, calVars, learnVars>>

\* if (this._workerProfile) return this._workerProfile, common.js 164-166
CapCached ==
    /\ wPc = "call" /\ IsCapacity
    /\ workerProfile # NoValue
    /\ wResult' = workerProfile
    /\ wPc' = "returned"
    /\ UNCHANGED <<wCall, workers, tasks, urlState, failureReason, workerProfile>>
    /\ UNCHANGED <<clusterVars, classifyVars, memVars, matchVars, calVars, learnVars>>

\* typeof Worker === 'undefined', common.js 168-179
CapNoWorkerAPI ==
    /\ wPc = "call" /\ IsCapacity
    /\ workerProfile = NoValue
    /\ ~wCall.workerApi
    /\ workerProfile' = [available |-> FALSE, hardwareConcurrency |-> wCall.hc,
                         spawned |-> 0, tested |-> 0,
                         failureReason |-> "Worker API unavailable"]
    /\ wResult' = workerProfile'
    /\ wPc' = "returned"
    /\ UNCHANGED <<wCall, workers, tasks, urlState, failureReason>>
    /\ UNCHANGED <<clusterVars, classifyVars, memVars, matchVars, calVars, learnVars>>

\* the number of handshakes answered: let spawned
Spawned(ts) == Len(SelectSeq(ts, IsValidResult))

\* the loop is left (break or i = upperBound): finally, common.js 271-277,
\* then the profile is stored and returned, common.js 279-289
CapFinish(ts, reason) ==
    /\ tasks' = ts
    /\ failureReason' = reason
    /\ workers' = Cleanup(workers)
    /\ urlState' = "revoked"
    /\ workerProfile' = CapacityProfile(wCall.hc, Spawned(ts),
                                        UpperBound(wCall.maxProbe, wCall.hc),
                                        reason)
    /\ wResult' = workerProfile'
    /\ wPc' = "returned"

\* common.js 181-258 up to the first await: the blob URL is created, the
\* first worker constructed and pinged
CapStart ==
    /\ wPc = "call" /\ IsCapacity
    /\ workerProfile = NoValue
    /\ wCall.workerApi
    /\ urlState' = "created"
    /\ workers' = <<"alive">>
    /\ tasks' = <<Pending>>
    /\ wPc' = "handshake"
    /\ UNCHANGED <<wCall, failureReason, wResult, workerProfile>>
    /\ UNCHANGED <<clusterVars, classifyVars, memVars, matchVars, calVars, learnVars>>

\* the same, the first constructor throwing: break, finally, return
CapStartFails ==
    /\ wPc = "call" /\ IsCapacity
    /\ workerProfile = NoValue
    /\ wCall.workerApi
    /\ CapFinish(tasks, ErrConstructor)
    /\ UNCHANGED wCall
    /\ UNCHANGED <<clusterVars, classifyVars, memVars, matchVars, calVars, learnVars>>

\* the pong arrives and the next worker is constructed and pinged
CapPongNext ==
    /\ wPc = "handshake" /\ IsCapacity
    /\ Len(workers) < UpperBound(wCall.maxProbe, wCall.hc)
    /\ tasks' = Append([tasks EXCEPT ![Len(tasks)] = ResultOf(1)], Pending)
    /\ workers' = Append(workers, "alive")
    /\ UNCHANGED <<wPc, wCall, urlState, failureReason, wResult, workerProfile>>
    /\ UNCHANGED <<clusterVars, classifyVars, memVars, matchVars, calVars, learnVars>>

\* the pong arrives and the next constructor throws
CapPongSpawnFails ==
    /\ wPc = "handshake" /\ IsCapacity
    /\ Len(workers) < UpperBound(wCall.maxProbe, wCall.hc)
    /\ CapFinish([tasks EXCEPT ![Len(tasks)] = ResultOf(1)], ErrConstructor)
    /\ UNCHANGED wCall
    /\ UNCHANGED <<clusterVars, classifyVars, memVars, matchVars, calVars, learnVars>>

\* the pong arrives for the last worker to probe
CapPongLast ==
    /\ wPc = "handshake" /\ IsCapacity
    /\ Len(workers) >= UpperBound(wCall.maxProbe, wCall.hc)
    /\ CapFinish([tasks EXCEPT ![Len(tasks)] = ResultOf(1)], failureReason)
    /\ UNCHANGED wCall
    /\ UNCHANGED <<clusterVars, classifyVars, memVars, matchVars, calVars, learnVars>>

\* the handshake promise rejects (400 ms timeout, worker error, or the
\* ping's postMessage throwing): .catch sets failureReason, break
CapHandshakeFails ==
    /\ wPc = "handshake" /\ IsCapacity
    /\ \E err \in {ErrHandshakeTimeout, ErrWorker, ErrDispatch} :
          CapFinish([tasks EXCEPT ![Len(tasks)] = Rejected], err)
    /\ UNCHANGED wCall
    /\ UNCHANGED <<clusterVars, classifyVars, memVars, matchVars, calVars, learnVars>>

\* profileWorkerCapacity is called again on the same object
CapCallAgain ==
    /\ wPc = "returned" /\ IsCapacity
    /\ wResult # NoValue
    /\ wPc' = "call"
    /\ workers' = << >> /\ tasks' = << >> /\ urlState' = "none"
    /\ failureReason' = NullStr /\ wResult' = NoValue
    /\ UNCHANGED <<wCall, workerProfile>>
    /\ UNCHANGED <<clusterVars, classifyVars, memVars, matchVars, calVars, learnVars>>

WorkerNext ==
    \/ PerfNoWorkerAPI \/ PerfInsufficientCores \/ PerfStart
    \/ TaskResult \/ TaskError \/ TaskTimeout \/ LateMessage
    \/ PerfDispatchFailed \/ PerfInsufficientResults \/ PerfAnalysed
    \/ CapCached \/ CapNoWorkerAPI \/ CapStart \/ CapStartFails
    \/ CapPongNext \/ CapPongSpawnFails \/ CapPongLast \/ CapHandshakeFails
    \/ CapCallAgain

SpecWorker == WorkerInit /\ [][WorkerNext]_vars

\* The event loop runs what is ready: the body of a call, the continuation
\* of the await once Promise.all has settled, and the 30 s timer of a task
\* that is still pending.  Nothing makes a worker answer: TaskResult,
\* TaskError and LateMessage may never happen.
WorkerFairness ==
    /\ WF_vars(PerfNoWorkerAPI) /\ WF_vars(PerfInsufficientCores)
    /\ WF_vars(PerfStart)
    /\ WF_vars(TaskTimeout)
    /\ WF_vars(PerfDispatchFailed) /\ WF_vars(PerfInsufficientResults)
    /\ WF_vars(PerfAnalysed)

SpecWorkerFair == WorkerInit /\ [][WorkerNext]_vars /\ WorkerFairness

(***************************************************************************)
(* Strings of the device matcher (src/src/device-database.js).  A string   *)
(* is the sequence of its characters, so that toLowerCase, includes,       *)
(* replace and trim do what the code's do.                                 *)
(***************************************************************************)
StrApple ==   \* "Apple"
    <<"A", "p", "p", "l", "e">>
StrAppleLower ==   \* "apple"
    <<"a", "p", "p", "l", "e">>
StrMetal ==   \* "metal"
    <<"m", "e", "t", "a", "l">>
StrMetal3 ==   \* "metal-3"
    <<"m", "e", "t", "a", "l", "-", "3">>
StrAppleGpu ==   \* "apple-gpu"
    <<"a", "p", "p", "l", "e", "-", "g", "p", "u">>
StrQualcomm ==   \* "Qualcomm"
    <<"Q", "u", "a", "l", "c", "o", "m", "m">>
StrNvidia ==   \* "nvidia"
    <<"n", "v", "i", "d", "i", "a">>
StrGoogleApple ==   \* "Google Inc. (Apple)"
    <<"G", "o", "o", "g", "l", "e", " ", "I", "n", "c", ".", " ", "(", "A",
      "p", "p", "l", "e", ")">>
StrAngleM4Pro ==   \* "ANGLE (Apple, ANGLE Metal Renderer: Apple M4 Pro, Unspecified Version)"
    <<"A", "N", "G", "L", "E", " ", "(", "A", "p", "p", "l", "e", ",", " ",
      "A", "N", "G", "L", "E", " ", "M", "e", "t", "a", "l", " ", "R", "e",
      "n", "d", "e", "r", "e", "r", ":", " ", "A", "p", "p", "l", "e", " ",
      "M", "4", " ", "P", "r", "o", ",", " ", "U", "n", "s", "p", "e", "c",
      "i", "f", "i", "e", "d", " ", "V", "e", "r", "s", "i", "o", "n", ")">>
StrAngleM1 ==   \* "ANGLE (Apple, ANGLE Metal Renderer: Apple M1, Unspecified Version)"
    <<"A", "N", "G", "L", "E", " ", "(", "A", "p", "p", "l", "e", ",", " ",
      "A", "N", "G", "L", "E", " ", "M", "e", "t", "a", "l", " ", "R", "e",
      "n", "d", "e", "r", "e", "r", ":", " ", "A", "p", "p", "l", "e", " ",
      "M", "1", ",", " ", "U", "n", "s", "p", "e", "c", "i", "f", "i", "e",
      "d", " ", "V", "e", "r", "s", "i", "o", "n", ")">>
StrAdreno ==   \* "Adreno (TM) 740"
    <<"A", "d", "r", "e", "n", "o", " ", "(", "T", "M", ")", " ", "7", "4",
      "0">>
StrAppleSilicon ==   \* "Apple Silicon"
    <<"A", "p", "p", "l", "e", " ", "S", "i", "l", "i", "c", "o", "n">>
StrARM ==   \* "ARM"
    <<"A", "R", "M">>
StrIntelFamily ==   \* "Intel/High-Performance Desktop CPU"
    <<"I", "n", "t", "e", "l", "/", "H", "i", "g", "h", "-", "P", "e", "r",
      "f", "o", "r", "m", "a", "n", "c", "e", " ", "D", "e", "s", "k", "t",
      "o", "p", " ", "C", "P", "U">>

UpperCaseLetters ==
    <<"A", "B", "C", "D", "E", "F", "G", "H", "I", "J", "K", "L", "M", "N",
      "O", "P", "Q", "R", "S", "T", "U", "V", "W", "X", "Y", "Z">>
LowerCaseLetters ==
    <<"a", "b", "c", "d", "e", "f", "g", "h", "i", "j", "k", "l", "m", "n",
      "o", "p", "q", "r", "s", "t", "u", "v", "w", "x", "y", "z">>
Digits ==
    <<"0", "1", "2", "3", "4", "5", "6", "7", "8", "9">>

\* the set of the elements of a sequence
Range(s) == {s[i] : i \in 1..Len(s)}

\* String.prototype.toLowerCase
UpperToLower ==
    [c \in Range(UpperCaseLetters) |->
        LowerCaseLetters[CHOOSE i \in 1..26 : UpperCaseLetters[i] = c]]
ToLowerChar(c) == IF c \in DOMAIN UpperToLower THEN UpperToLower[c] ELSE c
ToLower(s) == [i \in 1..Len(s) |-> ToLowerChar(s[i])]

\* String.prototype.includes
Includes(s, part) ==
    \E i \in 0..(Len(s) - Len(part)) : SubSeq(s, i + 1, i + Len(part)) = part

\* String.prototype.trim, for blanks
RECURSIVE TrimLeft(_)
TrimLeft(s) == IF Len(s) > 0 /\ s[1] = " " THEN TrimLeft(Tail(s)) ELSE s
RECURSIVE TrimRight(_)
TrimRight(s) ==
    IF Len(s) > 0 /\ s[Len(s)] = " " THEN TrimRight(SubSeq(s, 1, Len(s) - 1)) ELSE s
Trim(s) == TrimRight(TrimLeft(s))

\* str.toLowerCase().replace(/[^a-z0-9]/g, ''), device-database.js 1037
AlnumLower == Range(LowerCaseLetters) \cup Range(Digits)
IsAlnumLower(c) == c \in AlnumLower
Clean(s) == SelectSeq(ToLower(s), IsAlnumLower)

\* the token of a lower-cased vendor text when no vendor word is looked for
VendorTokenPlain(lower) == Trim(lower)

\* the canonical token of a lower-cased vendor text, device-database.js
\* 1025-1032
VendorTokenOf(lower) ==
    LET has(w) == Includes(lower, w)
    IN CASE has(<<"a","p","p","l","e">>) \/ has(<<"m","e","t","a","l">>)
              -> <<"a","p","p","l","e">>
         [] has(<<"n","v","i","d","i","a">>) \/ has(<<"g","e","f","o","r","c","e">>)
              \/ has(<<"r","t","x">>)
              -> <<"n","v","i","d","i","a">>
         [] has(<<"a","m","d">>) \/ has(<<"r","a","d","e","o","n">>)
              \/ has(<<"r","d","n","a">>)
              -> <<"a","m","d">>
         [] has(<<"i","n","t","e","l">>) \/ has(<<"i","r","i","s">>)
              \/ has(<<"u","h","d">>)
              -> <<"i","n","t","e","l">>
         [] has(<<"q","u","a","l","c","o","m","m">>)
              \/ has(<<"a","d","r","e","n","o">>)
              -> <<"q","u","a","l","c","o","m","m">>
         [] has(<<"a","r","m">>) \/ has(<<"m","a","l","i">>)
              -> <<"a","r","m">>
         [] OTHER -> Trim(lower)

\* _normalizeVendorToken(value), device-database.js 1022-1033; the empty
\* sequence stands for '' and for an absent value alike (both are falsy)
_normalizeVendorToken(value) ==
    IF value = << >> THEN << >>
    ELSE CHOOSE token \in {VendorTokenOf(lower) : lower \in {ToLower(value)}} : TRUE

\* synonymGroups, device-database.js 1043-1049
SynonymGroups ==
    <<{<<"m","e","t","a","l","3">>, <<"m","e","t","a","l">>,
       <<"a","p","p","l","e","g","p","u">>},
      {<<"a","p","p","l","e","g","p","u">>, <<"m","e","t","a","l">>},
      {<<"i","n","t","e","l","g","p","u">>, <<"i","n","t","e","l">>},
      {<<"n","v","i","d","i","a","g","p","u">>, <<"n","v","i","d","i","a">>},
      {<<"a","m","d","g","p","u">>, <<"a","m","d">>, <<"r","d","n","a">>}>>

\* the comparison of the two cleaned texts without the synonym groups
CleanedMatchNoSynonyms(a, e) ==
    /\ a # << >> /\ e # << >>
    /\ Includes(a, e) \/ Includes(e, a)

\* the comparison of the two cleaned texts, device-database.js 1039-1055
CleanedMatch(a, e) ==
    /\ a # << >> /\ e # << >>
    /\ \/ Includes(a, e) \/ Includes(e, a)
       \/ \E g \in 1..Len(SynonymGroups) :
             /\ \E tag \in SynonymGroups[g] : Includes(a, tag)
             /\ \E tag \in SynonymGroups[g] : Includes(e, tag)

\* _architectureMatches(actual, expected), device-database.js 1035-1056
_architectureMatches(actual, expected) ==
    /\ actual # << >> /\ expected # << >>
    /\ \E a \in {Clean(actual)}, e \in {Clean(expected)} : CleanedMatch(a, e)

(***************************************************************************)
(* The device matcher: class DeviceSignatureDatabase.  Scores and ratios   *)
(* are rationals; an absent number is NoRatio (a ratio) or Null (a size),  *)
(* an absent string is << >>, an absent object is NoValue.                 *)
(***************************************************************************)
RI(n) == R(n, 1)
StrIntel == <<"I", "n", "t", "e", "l">>
RMin(a, b) == CHOOSE r \in {IF RLT(y, x) THEN y ELSE x : x \in {a}, y \in {b}} : TRUE

\* this.confidenceThresholds, device-database.js 11-15
ThresholdHigh == 85
ThresholdMedium == 70

\* a mutation of calculateConfidence: the high branch is not capped
calculateConfidenceUncapped(matchScore, profileConfidence) ==
    LET finalConfidence ==
            RDiv(RAdd(RMin(matchScore, RI(100)), RI(profileConfidence)), RI(2))
    IN IF RLE(RI(ThresholdHigh), finalConfidence) THEN finalConfidence
       ELSE IF RLE(RI(ThresholdMedium), finalConfidence)
            THEN RMax(RI(60), finalConfidence)
            ELSE RMax(RI(40), RMul(finalConfidence, R(85, 100)))

\* calculateConfidence(matchScore, profileConfidence), device-database.js 898-911
calculateConfidence(matchScore, profileConfidence) ==
    LET scoreConfidence == RMin(matchScore, RI(100))
        finalConfidence == RDiv(RAdd(scoreConfidence, RI(profileConfidence)), RI(2))
    IN IF RLE(RI(ThresholdHigh), finalConfidence)
       THEN RMin(finalConfidence, RI(95))
       ELSE IF RLE(RI(ThresholdMedium), finalConfidence)
            THEN RMax(RI(60), finalConfidence)
            ELSE RMax(RI(40), RMul(finalConfidence, R(85, 100)))

\* RegExp.prototype.test for the renderer patterns of the profiles: a
\* pattern is a set of alternatives (|), an alternative a sequence of
\* literals separated by .*, all case-insensitive (/i)
RECURSIVE MatchParts(_, _)
MatchParts(parts, s) ==
    IF parts = << >> THEN TRUE
    ELSE LET part == parts[1]
             hits == {i \in 0..(Len(s) - Len(part)) :
                         SubSeq(s, i + 1, i + Len(part)) = part}
         IN /\ hits # {}
            /\ LET first == CHOOSE i \in hits : \A j \in hits : i <= j
               IN MatchParts(Tail(parts), SubSeq(s, first + Len(part) + 1, Len(s)))
RegexTest(pattern, s) == \E alt \in pattern : MatchParts(alt, ToLower(s))

\* /^[a-f0-9]{8}$/.test(hash), the canvasHashPattern of device-database.js 39
HexDigits == Range(Digits) \cup {"a", "b", "c", "d", "e", "f"}
CanvasHashPatternTest(hash) == Len(hash) = 8 /\ \A i \in 1..Len(hash) : hash[i] \in HexDigits

\* initializeDeviceProfiles(), device-database.js 21-301: five of the
\* profiles, in the order Object.entries walks them
DeviceProfiles ==
    << [brand |-> "apple", deviceName |-> "MacBook Air M1",
        cpu |-> [architecture |-> StrAppleSilicon,
                 cores |-> [p |-> 4, e |-> 4, total |-> 8],
                 l1CacheKB |-> [min |-> 120, max |-> 135],
                 memoryRatio |-> [min |-> R(7, 10), max |-> R(12, 10)]],
        gpu |-> [webgl |-> [vendor |-> StrApple,
                            renderer |-> {<<<<"a", "p", "p", "l", "e", " ", "m", "1">>>>},
                            canvasHashPattern |-> TRUE],
                 webgpu |-> [vendor |-> StrAppleLower,
                             architecture |-> StrAppleGpu]],
        confidence |-> 95],
       [brand |-> "apple", deviceName |-> "MacBook Air M4",
        cpu |-> [architecture |-> StrAppleSilicon,
                 cores |-> [p |-> 4, e |-> 6, total |-> 10],
                 l1CacheKB |-> [min |-> 180, max |-> 200],
                 memoryRatio |-> [min |-> R(9, 10), max |-> R(13, 10)]],
        gpu |-> [webgl |-> [vendor |-> StrApple,
                            renderer |-> {<<<<"a", "p", "p", "l", "e", " ", "m", "4">>>>},
                            canvasHashPattern |-> FALSE],
                 webgpu |-> [vendor |-> StrAppleLower,
                             architecture |-> StrMetal3]],
        confidence |-> 98],
       [brand |-> "apple", deviceName |-> "MacBook Pro M4 Pro",
        cpu |-> [architecture |-> StrAppleSilicon,
                 cores |-> [p |-> 6, e |-> 6, total |-> 12],
                 l1CacheKB |-> [min |-> 180, max |-> 200],
                 memoryRatio |-> [min |-> R(95, 100), max |-> R(125, 100)]],
        gpu |-> [webgl |-> [vendor |-> StrApple,
                            renderer |-> {<<<<"a", "p", "p", "l", "e", " ", "m", "4", " ", "p", "r", "o">>>>, <<<<"m", "4", " ", "p", "r", "o">>>>},
                            canvasHashPattern |-> FALSE],
                 webgpu |-> [vendor |-> StrAppleLower,
                             architecture |-> StrMetal3]],
        confidence |-> 98],
       [brand |-> "intel", deviceName |-> "Intel High-End Desktop",
        cpu |-> [architecture |-> StrIntel,
                 cores |-> NoValue,
                 l1CacheKB |-> NoValue,
                 memoryRatio |-> [min |-> R(15, 10), max |-> R(25, 10)]],
        gpu |-> [webgl |-> [vendor |-> StrIntel,
                            renderer |-> {<<<<"i", "n", "t", "e", "l">>, <<"i", "r", "i", "s">>, <<"x", "e">>>>},
                            canvasHashPattern |-> FALSE],
                 webgpu |-> [vendor |-> <<"i", "n", "t", "e", "l">>,
                             architecture |-> <<"i", "n", "t", "e", "l", "-", "g", "p", "u">>]],
        confidence |-> 80],
       [brand |-> "mobile", deviceName |-> "High-End Android",
        cpu |-> [architecture |-> StrARM,
                 cores |-> NoValue,
                 l1CacheKB |-> NoValue,
                 memoryRatio |-> [min |-> R(25, 10), max |-> R(45, 10)]],
        gpu |-> [webgl |-> [vendor |-> StrQualcomm,
                            renderer |-> {<<<<"a", "d", "r", "e", "n", "o">>>>},
                            canvasHashPattern |-> FALSE],
                 webgpu |-> NoValue],
        confidence |-> 75] >>

\* _assessNoiseFactors(features), device-database.js 381-410
_assessNoiseFactors(features) ==
    LET stability == features.performanceStability
        battery == features.batteryStatus
        temperature ==
            IF stability = NoValue THEN "unknown"
            ELSE IF RLT(R(3, 10), stability.variance) THEN "possibly_high"
            ELSE IF RLT(stability.variance, R(1, 10)) THEN "likely_normal"
            ELSE "unknown"
        lowBattery ==
            /\ battery # NoValue /\ battery.charging = FALSE
            /\ IsNum(battery.level) /\ battery.level[1] # 0
            /\ RLT(battery.level, R(2, 10))
        noiseLevel ==
            IF lowBattery THEN "high"
            ELSE IF stability # NoValue /\ RLT(R(25, 100), stability.variance)
                 THEN "medium" ELSE "low"
    IN [temperature |-> temperature, systemLoad |-> "unknown",
        performanceStability |-> stability, noiseLevel |-> noiseLevel]

\* _matchWebGLFeatures(expected, actual), device-database.js 596-618
_matchWebGLFeatures(expected, actual) ==
    LET vendor ==
            /\ expected.vendor # << >> /\ actual.rawVendor # << >>
            /\ _normalizeVendorToken(expected.vendor)
                 = _normalizeVendorToken(actual.rawVendor)
        renderer ==
            /\ actual.rawRenderer # << >>
            /\ RegexTest(expected.renderer, actual.rawRenderer)
    IN [score |-> (IF vendor THEN 5 ELSE 0) + (IF renderer THEN 5 ELSE 0),
        details |-> (IF vendor THEN <<"WebGL vendor match">> ELSE << >>)
                    \o (IF renderer THEN <<"WebGL renderer match">> ELSE << >>),
        contradictions |-> << >>]

\* _matchWebGPUFeatures(expected, actual), device-database.js 623-646
_matchWebGPUFeatures(expected, actual) ==
    LET adapter == IF actual.rawAdapter = NoValue
                   THEN [vendor |-> << >>, architecture |-> << >>]
                   ELSE actual.rawAdapter
        vendor ==
            /\ expected.vendor # << >> /\ adapter.vendor # << >>
            /\ _normalizeVendorToken(expected.vendor)
                 = _normalizeVendorToken(adapter.vendor)
        architecture ==
            /\ expected.architecture # << >> /\ adapter.architecture # << >>
            /\ _architectureMatches(adapter.architecture, expected.architecture)
    IN [score |-> (IF vendor THEN 3 ELSE 0) + (IF architecture THEN 2 ELSE 0),
        details |-> (IF vendor THEN <<"WebGPU vendor match">> ELSE << >>)
                    \o (IF architecture THEN <<"WebGPU architecture match">>
                        ELSE << >>),
        contradictions |-> << >>]

\* _matchPerformanceFeatures(profile, computePerf), device-database.js 651-667
_matchPerformanceFeatures(profile, computePerf) ==
    IF /\ computePerf.float # 0 /\ computePerf.integer # 0
       /\ computePerf.float > 0 /\ computePerf.float < 20
       /\ computePerf.integer > 0 /\ computePerf.integer < 10
    THEN 2 ELSE 0

\* if (contradictions.length) total -= Math.min(20, contradictions.length * 5),
\* device-database.js 575-577
ComprehensivePenalty(contradictions) == Min(20, Len(contradictions) * 5)

\* the L1 credit inside the tolerance, device-database.js 477-482
L1Credit(actualL1, expectedL1) ==
    LET distance == Min(Abs(actualL1 - expectedL1.min),
                        Abs(actualL1 - expectedL1.max))
    IN Max(0, IF distance <= 5 THEN 25 ELSE 25 - (distance - 5) * 2)

\* the memory ratio credit inside the tolerance, device-database.js 505-510
MemoryRatioCredit(actualRatio, expectedRatio) ==
    LET distance == RMin(RAbs(RSub(actualRatio, expectedRatio.min)),
                         RAbs(RSub(actualRatio, expectedRatio.max)))
    IN RMax(RI(0), IF RLE(distance, R(1, 10)) THEN RI(15)
                   ELSE RSub(RI(15), RMul(distance, RI(10))))

\* calculateComprehensiveMatchScore(brand, profile, features, noiseFactors),
\* device-database.js 415-591
calculateComprehensiveMatchScore(brand, profile, features, noiseFactors) ==
    LET \* 1. core configuration
        hasCores == features.cores # NoValue /\ profile.cpu.cores # NoValue
        expectedCores == profile.cpu.cores
        actualCores == features.cores
        totalMatch == actualCores.total = expectedCores.total
        exactMatch == actualCores.p = expectedCores.p /\ actualCores.e = expectedCores.e
        closeMatch == /\ Abs(actualCores.p - expectedCores.p) <= 1
                      /\ Abs(actualCores.e - expectedCores.e) <= 1
        coreScore ==
            IF hasCores
            THEN (IF totalMatch THEN 20 ELSE 0)
                 + (IF exactMatch THEN 20 ELSE IF closeMatch THEN 15 ELSE 0)
            ELSE 0
        coreDetails ==
            IF hasCores
            THEN (IF totalMatch THEN <<"Total cores match">> ELSE << >>)
                 \o (IF exactMatch THEN <<"P/E core configuration exact match">>
                     ELSE IF closeMatch
                          THEN <<"P/E core configuration close match">>
                          ELSE << >>)
            ELSE << >>
        coreContradictions ==
            IF hasCores /\ ~exactMatch /\ ~closeMatch
            THEN <<"Core configuration mismatch">> ELSE << >>
        \* 2. L1 cache
        hasL1 == /\ features.l1CacheKB # Null /\ features.l1CacheKB # 0
                 /\ profile.cpu.l1CacheKB # NoValue
        expectedL1 == profile.cpu.l1CacheKB
        actualL1 == features.l1CacheKB
        l1Tolerated == /\ actualL1 >= expectedL1.min - 10
                       /\ actualL1 <= expectedL1.max + 10
        l1Score == IF hasL1 /\ l1Tolerated THEN L1Credit(actualL1, expectedL1) ELSE 0
        l1Details == IF hasL1 /\ l1Tolerated THEN <<"L1 cache match">> ELSE << >>
        l1Contradictions ==
            IF hasL1 /\ ~l1Tolerated THEN <<"L1 cache mismatch">> ELSE << >>
        \* 3. memory ratio
        hasRatio == /\ IsNum(features.memoryRatio) /\ features.memoryRatio[1] # 0
                    /\ profile.cpu.memoryRatio # NoValue
        expectedRatio == profile.cpu.memoryRatio
        actualRatio == features.memoryRatio
        noiseTolerance ==
            IF noiseFactors.noiseLevel = "high" THEN R(3, 10)
            ELSE IF noiseFactors.noiseLevel = "medium" THEN R(25, 100)
            ELSE R(2, 10)
        isM4Series == /\ profile.cpu.l1CacheKB # NoValue
                      /\ profile.cpu.l1CacheKB.min >= 180
        extendedTolerance ==
            IF isM4Series THEN RAdd(noiseTolerance, R(15, 100)) ELSE noiseTolerance
        ratioTolerated ==
            /\ RLE(RSub(expectedRatio.min, extendedTolerance), actualRatio)
            /\ RLE(actualRatio, RAdd(expectedRatio.max, extendedTolerance))
        ratioDistance == RMin(RAbs(RSub(actualRatio, expectedRatio.min)),
                              RAbs(RSub(actualRatio, expectedRatio.max)))
        ratioClose == RLE(ratioDistance, RAdd(extendedTolerance, R(1, 10)))
        ratioScore ==
            IF ~hasRatio THEN RI(0)
            ELSE IF ratioTolerated THEN MemoryRatioCredit(actualRatio, expectedRatio)
            ELSE IF ratioClose
                 THEN RMax(RI(0),
                           RSub(RI(15), RMul(RSub(ratioDistance, extendedTolerance),
                                             RI(20))))
                 ELSE RI(0)
        ratioDetails ==
            IF ~hasRatio THEN << >>
            ELSE IF ratioTolerated THEN <<"Memory ratio match">>
            ELSE IF ratioClose THEN <<"Memory ratio close match">>
            ELSE IF coreScore < 30 /\ l1Score < 20 THEN << >>
            ELSE <<"Memory ratio slightly out of range">>
        ratioContradictions ==
            IF /\ hasRatio /\ ~ratioTolerated /\ ~ratioClose
               /\ coreScore < 30 /\ l1Score < 20
            THEN <<"Memory ratio mismatch">> ELSE << >>
        \* 4. and 5. WebGL and WebGPU
        webglScore ==
            IF features.webglAnalysis # NoValue /\ profile.gpu.webgl # NoValue
            THEN _matchWebGLFeatures(profile.gpu.webgl, features.webglAnalysis)
            ELSE [score |-> 0, details |-> << >>, contradictions |-> << >>]
        webgpuScore ==
            IF features.webgpuAnalysis # NoValue /\ profile.gpu.webgpu # NoValue
            THEN _matchWebGPUFeatures(profile.gpu.webgpu, features.webgpuAnalysis)
            ELSE [score |-> 0, details |-> << >>, contradictions |-> << >>]
        \* 6. performance
        perfScore ==
            IF features.computePerformance # NoValue /\ noiseFactors.noiseLevel # "high"
            THEN _matchPerformanceFeatures(profile, features.computePerformance)
            ELSE 0
        contradictions ==
            coreContradictions \o l1Contradictions \o ratioContradictions
            \o webglScore.contradictions \o webgpuScore.contradictions
        weighted ==
            RAdd(RMul(RI(coreScore), R(40, 100)),
            RAdd(RMul(RI(l1Score), R(25, 100)),
            RAdd(RMul(ratioScore, R(15, 100)),
            RAdd(RMul(RI(webglScore.score), R(10, 100)),
            RAdd(RMul(RI(webgpuScore.score), R(5, 100)),
                 RMul(RI(perfScore), R(5, 100)))))))
        total == IF Len(contradictions) > 0
                 THEN RSub(weighted, RI(ComprehensivePenalty(contradictions)))
                 ELSE weighted
        noiseAdjusted ==
            IF noiseFactors.noiseLevel = "high" THEN RMul(total, R(85, 100))
            ELSE IF noiseFactors.noiseLevel = "medium" THEN RMul(total, R(92, 100))
            ELSE total
    IN [cores |-> RI(coreScore), l1Cache |-> RI(l1Score), memoryRatio |-> ratioScore,
        webgl |-> RI(webglScore.score), webgpu |-> RI(webgpuScore.score),
        performance |-> RI(perfScore),
        total |-> RMax(RI(0), total),
        noiseAdjusted |-> RMax(RI(0), noiseAdjusted),
        details |-> [cores |-> coreDetails, l1Cache |-> l1Details,
                     memoryRatio |-> ratioDetails, webgl |-> webglScore.details,
                     webgpu |-> webgpuScore.details,
                     performance |-> IF perfScore > 0
                                     THEN <<"Performance characteristics match">>
                                     ELSE << >>],
        contradictions |-> contradictions]

\* candidates.sort((a, b) => b.score - a.score): stable, descending.  The
\* place of candidate i is one more than the number of candidates that go
\* before it (a higher score, or the same score and an earlier index).
SortedByScore(cs) ==
    LET before(i) == {j \in 1..Len(cs) :
                         \/ RLT(cs[i].score, cs[j].score)
                         \/ cs[j].score = cs[i].score /\ j < i}
    IN [k \in 1..Len(cs) |->
           cs[CHOOSE i \in 1..Len(cs) : Cardinality(before(i)) = k - 1]]
SortCandidates(cs) == CHOOSE sorted \in {SortedByScore(v) : v \in {cs}} : TRUE

\* generateEvidence(matchResult), device-database.js 916-939: it reads
\* details.cpu, details.webgl and details.webgpu, and throws a TypeError
\* on details that have no cpu list
generateEvidence(matchResult) ==
    IF {"cpu", "webgl", "webgpu"} \subseteq DOMAIN matchResult.details
    THEN [threw |-> FALSE,
          lines |-> <<"Device Type", "Overall Match Score">>
                    \o (IF matchResult.details.cpu # << >>
                        THEN <<"CPU Feature Match:">> \o matchResult.details.cpu
                        ELSE << >>)
                    \o (IF matchResult.details.webgl # << >>
                        THEN <<"WebGL Feature Match:">> \o matchResult.details.webgl
                        ELSE << >>)
                    \o (IF matchResult.details.webgpu # << >>
                        THEN <<"WebGPU Feature Match:">> \o matchResult.details.webgpu
                        ELSE << >>)]
    ELSE [threw |-> TRUE, lines |-> << >>]

UnknownDevice == <<"Unknown Device">>

\* if (score.total > 40), device-database.js 335, on the score a candidate
\* carries
ComprehensiveAccepts(candidate) == RLT(RI(40), candidate.score)

\* the candidate identifyDeviceComprehensive makes of profile i,
\* device-database.js 329-345 (pushed when ComprehensiveAccepts)
ComprehensiveCandidate(i, features, noiseFactors) ==
    CHOOSE c \in
      {[brand |-> DeviceProfiles[i].brand,
        deviceName |-> DeviceProfiles[i].deviceName,
        score |-> score.total,
        details |-> score.details,
        contradictions |-> score.contradictions,
        confidence |-> calculateConfidence(score.total, DeviceProfiles[i].confidence),
        noiseAdjusted |-> score.noiseAdjusted] :
       score \in {calculateComprehensiveMatchScore(DeviceProfiles[i].brand,
                      DeviceProfiles[i], features, noiseFactors)}} : TRUE

\* the return statements of identifyDeviceComprehensive, device-database.js
\* 354-375; generateEvidence throws on the details of these candidates
ComprehensiveResult(candidates, noiseFactors) ==
    IF candidates # << >>
    THEN IF generateEvidence(candidates[1]).threw
         THEN [threw |-> TRUE]
         ELSE [threw |-> FALSE,
               deviceModel |-> <<candidates[1].brand, candidates[1].deviceName>>,
               confidence |-> candidates[1].confidence,
               noiseAdjustedConfidence |-> candidates[1].noiseAdjusted,
               evidence |-> generateEvidence(candidates[1]).lines,
               contradictions |-> candidates[1].contradictions,
               alternatives |-> Slice(candidates, 1, 3),
               noiseFactors |-> noiseFactors]
    ELSE [threw |-> FALSE, deviceModel |-> UnknownDevice, confidence |-> RI(0),
          evidence |-> <<"Unable to match any known device configuration">>,
          alternatives |-> << >>, noiseFactors |-> noiseFactors]

\* the loop and the sort of identifyDeviceComprehensive, device-database.js
\* 327-351
ComprehensiveCandidates(features, noiseFactors) ==
    SortCandidates(SelectSeq([i \in 1..Len(DeviceProfiles) |->
                                 ComprehensiveCandidate(i, features, noiseFactors)],
                             ComprehensiveAccepts))

\* identifyDeviceComprehensive(comprehensiveFeatures), device-database.js 308-376
identifyDeviceComprehensive(features) ==
    CHOOSE result \in
      {ComprehensiveResult(candidates, _assessNoiseFactors(features)) :
         candidates \in {ComprehensiveCandidates(features,
                                                 _assessNoiseFactors(features))}} : TRUE

\* _resolveCalibrationKey(brand, profile), device-database.js 1010-1020;
\* the brands of the profiles are lower-case already
_resolveCalibrationKey(brand, profile) ==
    LET arch == ToLower(profile.cpu.architecture)
    IN IF brand \in {"apple", "intel", "amd", "nvidia"} THEN brand
       ELSE IF Includes(arch, <<"a", "p", "p", "l", "e">>) THEN "apple"
       ELSE IF Includes(arch, <<"i", "n", "t", "e", "l">>) THEN "intel"
       ELSE IF Includes(arch, <<"a", "m", "d">>) THEN "amd"
       ELSE IF brand # "" THEN brand ELSE "other"

\* _distanceToRange(value, min, max, fallback), device-database.js 941-954;
\* range is NoValue for the {} of a profile without a ratio range
_distanceToRange(value, range, fallback) ==
    IF ~IsNum(value) THEN RI(1)
    ELSE IF range # NoValue
         THEN IF RLE(range.min, value) /\ RLE(value, range.max) THEN RI(0)
              ELSE IF RLT(value, range.min) THEN RAbs(RSub(value, range.min))
              ELSE RAbs(RSub(value, range.max))
    ELSE IF IsNum(fallback) THEN RAbs(fallback)
    ELSE RI(1)

\* fam?.[bandType] || fam?.overall || fam?.l1 || fam?.deep,
\* device-database.js 961-962
CalibrationBandOf(bands, key, bandType) ==
    IF key \notin DOMAIN bands THEN NoValue
    ELSE IF bands[key][bandType] # NoValue THEN bands[key][bandType]
    ELSE IF bands[key]["overall"] # NoValue THEN bands[key]["overall"]
    ELSE IF bands[key]["l1"] # NoValue THEN bands[key]["l1"]
    ELSE bands[key]["deep"]

\* Math.max(width * 0.6, Math.abs(median) * 0.08, 0.1), device-database.js
\* 967-971; a band has min and max (so q25 and q75 are not read)
BandTolerance(band) ==
    RMax(RMul(RMax(R(1, 1000000), RSub(band.max, band.min)), R(6, 10)),
         RMax(RMul(RAbs(IF IsNum(band.median) THEN band.median
                        ELSE RDiv(RAdd(band.min, band.max), RI(2))),
                   R(8, 100)),
              R(1, 10)))

\* the three returns of _matchCalibrationBand, device-database.js 977-990
BandMatch(band, tolerance, deviation, value, maxScore) ==
    IF RLE(band.min, value) /\ RLE(value, band.max)
    THEN [match |-> TRUE, score |-> RI(maxScore), deviation |-> NoRatio]
    ELSE IF /\ RLE(RSub(band.min, tolerance), value)
            /\ RLE(value, RAdd(band.max, tolerance))
    THEN [match |-> TRUE,
          score |-> RAdd(RMul(RI(maxScore), R(75, 100)),
                         RMul(RMax(RI(0),
                                   RSub(RI(1),
                                        RDiv(deviation,
                                             RMax(tolerance, R(1, 1000000))))),
                              RSub(RI(maxScore), RMul(RI(maxScore), R(75, 100))))),
          deviation |-> deviation]
    ELSE [match |-> FALSE, score |-> RI(0), deviation |-> deviation]

\* _matchCalibrationBand(brand, profile, value, bandType, maxScore),
\* device-database.js 956-991; bands is what getCalibrationBands() returns
_matchCalibrationBand(bands, brand, profile, value, bandType, maxScore) ==
    IF bands = NoValue \/ ~IsNum(value) THEN NoValue
    ELSE CHOOSE result \in
           {IF band = NoValue THEN NoValue
            ELSE BandMatch(band, BandTolerance(band),
                           RMin(RAbs(RSub(value, band.min)),
                                RAbs(RSub(value, band.max))),
                           value, maxScore) :
            band \in {CalibrationBandOf(bands, _resolveCalibrationKey(brand, profile),
                                        bandType)}} : TRUE

\* the else branch of the loop over ratioContributions, device-database.js
\* 784-796: no range hit and no calibration match
RatioFallback(diff, maxScore) ==
    IF RLT(RI(0), RSub(RMul(RI(maxScore), R(7, 10)),
                       RMul(RMul(diff, RI(maxScore)), R(5, 10))))
    THEN [score |-> RSub(RMul(RI(maxScore), R(7, 10)),
                         RMul(RMul(diff, RI(maxScore)), R(5, 10))),
          details |-> <<"Memory ratio match">>, contradictions |-> << >>]
    ELSE [score |-> RI(0), details |-> <<"Memory ratio match">>,
          contradictions |-> IF RLT(R(6, 10), diff)
                             THEN <<"CPU memory ratio deviation is large">>
                             ELSE << >>]

\* one pass of the loop over ratioContributions, device-database.js 767-797:
\* the credit added to scores.cpu, the details and contradictions pushed
RatioContribution(bands, brand, profile, value, range, bandType, maxScore) ==
    IF ~IsNum(value)
    THEN [score |-> RI(0), details |-> << >>, contradictions |-> << >>]
    ELSE IF range # NoValue /\ RLE(range.min, value) /\ RLE(value, range.max)
    THEN [score |-> RI(maxScore), details |-> <<"Memory ratio match">>,
          contradictions |-> << >>]
    ELSE CHOOSE result \in
           {IF calMatch # NoValue /\ calMatch.match
            THEN [score |-> calMatch.score,
                  details |-> <<"Memory ratio calibration band">>,
                  contradictions |-> << >>]
            ELSE RatioFallback(
                     _distanceToRange(value, range,
                                      IF calMatch = NoValue THEN NoRatio
                                      ELSE calMatch.deviation),
                     maxScore) :
            calMatch \in {_matchCalibrationBand(bands, brand, profile, value,
                                                bandType, maxScore)}} : TRUE

\* the CPU part of calculateMatchScore, device-database.js 729-798
CpuFeatureScore(bands, brand, profile, cpuFeatures) ==
    IF cpuFeatures = NoValue
    THEN [score |-> RI(0), details |-> << >>, contradictions |-> << >>]
    ELSE CHOOSE result \in
      {[score |-> RAdd(IF archMatch THEN RI(30) ELSE RI(0),
                       RAdd(overall.score, RAdd(deep.score, l1.score))),
        details |-> (IF archMatch THEN <<"Architecture match">> ELSE << >>)
                    \o overall.details \o deep.details \o l1.details,
        contradictions |->
            (IF ~archMatch /\ cpuFeatures.model # << >>
             THEN <<"CPU architecture inconsistent">> ELSE << >>)
            \o overall.contradictions \o deep.contradictions
            \o l1.contradictions] :
       archMatch \in {Includes(cpuFeatures.model, profile.cpu.architecture)},
       overall \in {RatioContribution(bands, brand, profile, cpuFeatures.memRatio,
                                      profile.cpu.memoryRatio, "overall", 25)},
       deep \in {RatioContribution(bands, brand, profile, cpuFeatures.memRatioDeep,
                                   profile.cpu.memoryRatio, "deep", 18)},
       l1 \in {RatioContribution(bands, brand, profile, cpuFeatures.memRatioL1,
                                 profile.cpu.memoryRatio, "l1", 12)}} : TRUE

\* the WebGL part of calculateMatchScore, device-database.js 800-849;
\* canvasVariants is absent from the analyses
WebGLFeatureScore(profile, webglAnalysis) ==
    IF webglAnalysis = NoValue \/ profile.gpu.webgl = NoValue
    THEN [score |-> 0, details |-> << >>, contradictions |-> << >>]
    ELSE CHOOSE result \in
      {[score |-> (IF vendor THEN 20 ELSE IF approx THEN 18 ELSE 0)
                  + (IF renderer THEN 25 ELSE 0)
                  + (IF hasPattern /\ hashMatched THEN 12 ELSE 0)
                  + (IF webglAnalysis.confidence > 80 THEN 10 ELSE 0),
        details |->
            (IF vendor THEN <<"Vendor match">>
             ELSE IF approx THEN <<"Vendor approximate match">> ELSE << >>)
            \o (IF renderer THEN <<"Renderer match">> ELSE << >>)
            \o (IF hasPattern /\ hashMatched
                THEN <<"Canvas fingerprint match">> ELSE << >>)
            \o (IF webglAnalysis.confidence > 80
                THEN <<"High confidence WebGL detection">> ELSE << >>),
        contradictions |->
            (IF ~vendor /\ ~approx /\ webglAnalysis.rawVendor # << >>
             THEN <<"WebGL vendor mismatch">> ELSE << >>)
            \o (IF hasPattern /\ ~hashMatched /\ webglAnalysis.canvasHash # NoValue
                THEN <<"Canvas fingerprint does not match expected pattern">>
                ELSE << >>)] :
       vendor \in
         {/\ _normalizeVendorToken(profile.gpu.webgl.vendor) # << >>
          /\ _normalizeVendorToken(profile.gpu.webgl.vendor)
               = _normalizeVendorToken(
                     IF webglAnalysis.normalizedVendor # << >>
                     THEN webglAnalysis.normalizedVendor
                     ELSE webglAnalysis.rawVendor)},
       approx \in
         {/\ _normalizeVendorToken(profile.gpu.webgl.vendor)
               # _normalizeVendorToken(
                     IF webglAnalysis.normalizedVendor # << >>
                     THEN webglAnalysis.normalizedVendor
                     ELSE webglAnalysis.rawVendor)
          /\ webglAnalysis.rawVendor # << >>
          /\ profile.gpu.webgl.vendor # << >>
          /\ Includes(ToLower(webglAnalysis.rawVendor),
                      ToLower(profile.gpu.webgl.vendor))},
       renderer \in
         {/\ webglAnalysis.rawRenderer # << >>
          /\ RegexTest(profile.gpu.webgl.renderer, webglAnalysis.rawRenderer)},
       hasPattern \in {profile.gpu.webgl.canvasHashPattern},
       hashMatched \in
         {/\ webglAnalysis.canvasHash # NoValue
          /\ CanvasHashPatternTest(webglAnalysis.canvasHash.str)}} : TRUE

\* const adapter = webgpuAnalysis.rawAdapter || {}, device-database.js 854
AdapterOf(webgpuAnalysis) ==
    IF webgpuAnalysis.rawAdapter = NoValue
    THEN [vendor |-> << >>, architecture |-> << >>]
    ELSE webgpuAnalysis.rawAdapter

\* the WebGPU part of calculateMatchScore, device-database.js 851-884
WebGPUFeatureScore(profile, webgpuAnalysis) ==
    IF webgpuAnalysis = NoValue \/ profile.gpu.webgpu = NoValue
    THEN [score |-> 0, details |-> << >>, contradictions |-> << >>]
    ELSE CHOOSE result \in
      {[score |-> (IF vendor THEN 25 ELSE IF approx THEN 20 ELSE 0)
                  + (IF archTested /\ arch THEN 20 ELSE 0)
                  + (IF webgpuAnalysis.confidence > 80 THEN 10 ELSE 0),
        details |->
            (IF vendor THEN <<"WebGPUVendor match">>
             ELSE IF approx THEN <<"WebGPUVendor approximate match">> ELSE << >>)
            \o (IF archTested /\ arch THEN <<"Architecture match">> ELSE << >>)
            \o (IF webgpuAnalysis.confidence > 80
                THEN <<"High confidence WebGPU detection">> ELSE << >>),
        contradictions |->
            (IF ~vendor /\ ~approx /\ adapter.vendor # << >>
             THEN <<"WebGPU vendor mismatch">> ELSE << >>)
            \o (IF archTested /\ ~arch
                THEN <<"WebGPU architecture mismatch">> ELSE << >>)] :
       adapter \in {AdapterOf(webgpuAnalysis)},
       vendor \in
         {/\ _normalizeVendorToken(profile.gpu.webgpu.vendor) # << >>
          /\ _normalizeVendorToken(profile.gpu.webgpu.vendor)
               = _normalizeVendorToken(
                     IF webgpuAnalysis.normalizedVendor # << >>
                     THEN webgpuAnalysis.normalizedVendor
                     ELSE AdapterOf(webgpuAnalysis).vendor)},
       approx \in
         {/\ _normalizeVendorToken(profile.gpu.webgpu.vendor)
               # _normalizeVendorToken(
                     IF webgpuAnalysis.normalizedVendor # << >>
                     THEN webgpuAnalysis.normalizedVendor
                     ELSE AdapterOf(webgpuAnalysis).vendor)
          /\ AdapterOf(webgpuAnalysis).vendor # << >>
          /\ profile.gpu.webgpu.vendor # << >>
          /\ Includes(ToLower(AdapterOf(webgpuAnalysis).vendor),
                      ToLower(profile.gpu.webgpu.vendor))},
       archTested \in
         {/\ AdapterOf(webgpuAnalysis).architecture # << >>
          /\ profile.gpu.webgpu.architecture # << >>},
       arch \in
         {_architectureMatches(AdapterOf(webgpuAnalysis).architecture,
                               profile.gpu.webgpu.architecture)}} : TRUE

\* the contradiction penalty of calculateMatchScore without its cap
MatchPenaltyUncapped(contradictions) == Len(contradictions) * 5

\* if (contradictions.length) total -= Math.min(15, contradictions.length * 5),
\* device-database.js 889
MatchPenalty(contradictions) == Min(15, Len(contradictions) * 5)

\* the weighted total of calculateMatchScore and its return value,
\* device-database.js 886-892
MatchTotal(cpu, webgl, webgpu) ==
    [cpu |-> cpu.score, webgl |-> RI(webgl.score), webgpu |-> RI(webgpu.score),
     total |->
        RMax(RI(0),
             RSub(RAdd(RMul(cpu.score, R(45, 100)),
                       RAdd(RMul(RI(webgl.score), R(25, 100)),
                            RMul(RI(webgpu.score), R(30, 100)))),
                  RI(MatchPenalty(cpu.contradictions \o webgl.contradictions
                                  \o webgpu.contradictions)))),
     details |-> [cpu |-> cpu.details, webgl |-> webgl.details,
                  webgpu |-> webgpu.details],
     contradictions |-> cpu.contradictions \o webgl.contradictions
                        \o webgpu.contradictions]

\* calculateMatchScore(brand, profile, cpuFeatures, webglAnalysis,
\* webgpuAnalysis), device-database.js 724-893; bands is what
\* getCalibrationBands() returns during the call
calculateMatchScore(bands, brand, profile, cpuFeatures, webglAnalysis, webgpuAnalysis) ==
    CHOOSE scores \in
      {MatchTotal(cpu, webgl, webgpu) :
         cpu \in {CpuFeatureScore(bands, brand, profile, cpuFeatures)},
         webgl \in {WebGLFeatureScore(profile, webglAnalysis)},
         webgpu \in {WebGPUFeatureScore(profile, webgpuAnalysis)}} : TRUE

\* the candidate identifyDevice and findSimilarDevices make of profile i,
\* device-database.js 678-689 and 1147-1155
MatchCandidate(i, bands, cpuFeatures, webglAnalysis, webgpuAnalysis) ==
    CHOOSE c \in
      {[brand |-> DeviceProfiles[i].brand,
        deviceName |-> DeviceProfiles[i].deviceName,
        score |-> score.total, details |-> score.details,
        contradictions |-> score.contradictions,
        confidence |-> calculateConfidence(score.total, DeviceProfiles[i].confidence)] :
       score \in {calculateMatchScore(bands, DeviceProfiles[i].brand, DeviceProfiles[i],
                                      cpuFeatures, webglAnalysis, webgpuAnalysis)}} : TRUE

\* if (score.total > 50), device-database.js 679
IdentifyAccepts(candidate) == RLT(RI(50), candidate.score)

\* the return statements of identifyDevice, device-database.js 697-718
IdentifyResult(candidates) ==
    IF candidates # << >>
    THEN [deviceModel |-> <<candidates[1].brand, candidates[1].deviceName>>,
          confidence |-> candidates[1].confidence,
          evidence |-> generateEvidence(candidates[1]).lines,
          contradictions |-> candidates[1].contradictions,
          needsMoreSamples |-> \/ Len(candidates[1].contradictions) > 0
                               \/ RLT(candidates[1].score, RI(65)),
          alternatives |-> Slice(candidates, 1, 3)]
    ELSE [deviceModel |-> UnknownDevice, confidence |-> RI(0),
          evidence |-> <<"Unable to match any known device configuration">>,
          alternatives |-> << >>]

\* identifyDevice(cpuFeatures, webglAnalysis, webgpuAnalysis),
\* device-database.js 672-719
identifyDevice(bands, cpuFeatures, webglAnalysis, webgpuAnalysis) ==
    CHOOSE result \in
      {IdentifyResult(candidates) :
         candidates \in
           {SortCandidates(SelectSeq(
                [i \in 1..Len(DeviceProfiles) |->
                    MatchCandidate(i, bands, cpuFeatures, webglAnalysis,
                                   webgpuAnalysis)],
                IdentifyAccepts))}} : TRUE

\* findSimilarDevices(cpuFeatures, webglAnalysis, webgpuAnalysis, threshold),
\* device-database.js 1142-1160
findSimilarDevices(bands, cpuFeatures, webglAnalysis, webgpuAnalysis, threshold) ==
    LET SimilarEnough(candidate) == RLE(RI(threshold), candidate.score)
    IN CHOOSE result \in
         {[i \in 1..Len(similar) |->
              [brand |-> similar[i].brand, deviceName |-> similar[i].deviceName,
               score |-> similar[i].score, confidence |-> similar[i].confidence]] :
          similar \in
            {SortCandidates(SelectSeq(
                 [i \in 1..Len(DeviceProfiles) |->
                     MatchCandidate(i, bands, cpuFeatures, webglAnalysis,
                                    webgpuAnalysis)],
                 SimilarEnough))}} : TRUE

(***************************************************************************)
(* The calls made on the database.  matchIn holds the arguments of one     *)
(* call and what getCalibrationBands() returns; every method is applied    *)
(* to the arguments of its kind.                                           *)
(***************************************************************************)
\* cpuFeatures as smartAnalysis builds it from analyzeCPUType's result
CpuFeatureValues ==
    {NoValue} \cup
    {[model |-> m, memRatio |-> o, memRatioDeep |-> dl[1], memRatioL1 |-> dl[2]] :
        m \in {StrAppleSilicon, StrIntelFamily},
        o \in {NoRatio, R(11, 10), R(5, 1)},
        dl \in {<<R(11, 10), R(1, 1)>>, <<R(3, 1), R(2, 1)>>}}

WebGLValues ==
    {NoValue} \cup
    {[rawVendor |-> vr[1], normalizedVendor |-> << >>, rawRenderer |-> vr[2],
      canvasHash |-> hc[1], confidence |-> hc[2]] :
        vr \in {<<StrGoogleApple, StrAngleM4Pro>>, <<StrAngleM4Pro, StrAngleM4Pro>>,
                <<StrQualcomm, StrAdreno>>, <<StrQualcomm, StrAngleM1>>},
        hc \in {<<NoValue, 90>>, <<[str |-> <<"1", "a", "2", "b", "3", "c", "4", "d">>], 50>>,
                <<[str |-> <<"n", "/", "a">>], 90>>}}

WebGPUValues ==
    {NoValue,
     [normalizedVendor |-> StrAppleLower, rawAdapter |-> NoValue, confidence |-> 50]}
    \cup
    {[normalizedVendor |-> << >>,
      rawAdapter |-> [vendor |-> va[1], architecture |-> va[2]],
      confidence |-> va[3]] :
        va \in {<<StrAppleLower, StrMetal3, 90>>,
                <<StrAngleM4Pro, StrAngleM4Pro, 90>>,
                <<StrAppleLower, StrAppleGpu, 50>>,
                <<StrNvidia, <<"i", "n", "t", "e", "l", "-", "g", "p", "u">>, 90>>}}

\* getCalibrationBands(): no table, or a table with an overall band for apple
CalibrationBandValues ==
    {NoValue,
     [key \in {"apple"} |->
        [bandType \in {"overall", "deep", "l1"} |->
            IF bandType = "overall"
            THEN [min |-> R(13, 10), max |-> R(19, 10), median |-> NoRatio]
            ELSE NoValue]]}

SimilarityThresholds == {0, 60}

\* [batteryStatus, performanceStability]: quiet, low battery, unstable
NoiseValues ==
    {<<NoValue, NoValue>>,
     <<[charging |-> FALSE, level |-> R(1, 10)], NoValue>>,
     <<NoValue, [variance |-> R(3, 10)]>>}

ComprehensiveFeatureValues ==
    {[cores |-> c, l1CacheKB |-> l1, memoryRatio |-> mr, webglAnalysis |-> gl,
      webgpuAnalysis |-> gpu, computePerformance |-> perf,
      batteryStatus |-> noise[1], performanceStability |-> noise[2]] :
        c \in {NoValue, [p |-> 4, e |-> 4, total |-> 8],
               [p |-> 6, e |-> 6, total |-> 12], [p |-> 5, e |-> 6, total |-> 11],
               [p |-> 8, e |-> 8, total |-> 16]},
        l1 \in {Null, 127, 190, 215},
        mr \in {NoRatio, R(95, 100), R(145, 100), R(5, 1)},
        gl \in {NoValue,
                [rawVendor |-> StrGoogleApple, normalizedVendor |-> << >>,
                 rawRenderer |-> StrAngleM4Pro, canvasHash |-> NoValue,
                 confidence |-> 90]},
        gpu \in {NoValue,
                 [normalizedVendor |-> << >>,
                  rawAdapter |-> [vendor |-> StrAppleLower,
                                  architecture |-> StrMetal3],
                  confidence |-> 90]},
        perf \in {NoValue, [float |-> 5, integer |-> 3]},
        noise \in NoiseValues}

MatchScoreValues == {RI(5 * k) : k \in 0..24}
ProfileConfidenceValues == {0, 50, 75, 80, 85, 90, 95, 98, 100}

MatchInit ==
    /\ \/ \E cpu \in CpuFeatureValues : \E gl \in WebGLValues :
          \E gpu \in WebGPUValues : \E bands \in CalibrationBandValues :
             matchIn = [kind |-> "features", bands |-> bands, cpuFeatures |-> cpu,
                        webglAnalysis |-> gl, webgpuAnalysis |-> gpu]
       \/ \E f \in ComprehensiveFeatureValues :
             matchIn = [kind |-> "comprehensive", features |-> f]
       \/ \E s \in MatchScoreValues : \E c \in ProfileConfidenceValues :
             matchIn = [kind |-> "confidence", matchScore |-> s,
                        profileConfidence |-> c]
    /\ matchOut = NoValue
    /\ ClusterIdle /\ ClassifyIdle /\ MemIdle /\ WorkerIdle /\ CalIdle /\ LearnIdle

CalculateConfidence ==
    /\ matchIn.kind = "confidence" /\ matchOut = NoValue
    /\ matchOut' = [op |-> "calculateConfidence",
                    value |-> calculateConfidence(matchIn.matchScore,
                                                  matchIn.profileConfidence)]
    /\ UNCHANGED <<matchIn, clusterVars, classifyVars, memVars, workerVars, calVars,
                   learnVars>>

CalculateMatchScore ==
    /\ matchIn.kind = "features" /\ matchOut = NoValue
    /\ \E i \in 1..Len(DeviceProfiles) :
          matchOut' = [op |-> "calculateMatchScore", profile |-> i,
                       value |-> calculateMatchScore(matchIn.bands,
                                     DeviceProfiles[i].brand, DeviceProfiles[i],
                                     matchIn.cpuFeatures, matchIn.webglAnalysis,
                                     matchIn.webgpuAnalysis)]
    /\ UNCHANGED <<matchIn, clusterVars, classifyVars, memVars, workerVars, calVars,
                   learnVars>>

IdentifyDevice ==
    /\ matchIn.kind = "features" /\ matchOut = NoValue
    /\ matchOut' = [op |-> "identifyDevice",
                    value |-> identifyDevice(matchIn.bands, matchIn.cpuFeatures,
                                             matchIn.webglAnalysis,
                                             matchIn.webgpuAnalysis)]
    /\ UNCHANGED <<matchIn, clusterVars, classifyVars, memVars, workerVars, calVars,
                   learnVars>>

FindSimilarDevices ==
    /\ matchIn.kind = "features" /\ matchOut = NoValue
    /\ \E threshold \in SimilarityThresholds :
          matchOut' = [op |-> "findSimilarDevices", threshold |-> threshold,
                       value |-> findSimilarDevices(matchIn.bands,
                                     matchIn.cpuFeatures, matchIn.webglAnalysis,
                                     matchIn.webgpuAnalysis, threshold)]
    /\ UNCHANGED <<matchIn, clusterVars, classifyVars, memVars, workerVars, calVars,
                   learnVars>>

CalculateComprehensiveMatchScore ==
    /\ matchIn.kind = "comprehensive" /\ matchOut = NoValue
    /\ \E i \in 1..Len(DeviceProfiles) :
          matchOut' = [op |-> "calculateComprehensiveMatchScore", profile |-> i,
                       value |-> calculateComprehensiveMatchScore(
                                     DeviceProfiles[i].brand, DeviceProfiles[i],
                                     matchIn.features,
                                     _assessNoiseFactors(matchIn.features))]
    /\ UNCHANGED <<matchIn, clusterVars, classifyVars, memVars, workerVars, calVars,
                   learnVars>>

IdentifyDeviceComprehensive ==
    /\ matchIn.kind = "comprehensive" /\ matchOut = NoValue
    /\ matchOut' = [op |-> "identifyDeviceComprehensive",
                    value |-> identifyDeviceComprehensive(matchIn.features)]
    /\ UNCHANGED <<matchIn, clusterVars, classifyVars, memVars, workerVars, calVars,
                   learnVars>>

MatchNext ==
    \/ CalculateConfidence
    \/ CalculateMatchScore
    \/ IdentifyDevice
    \/ FindSimilarDevices
    \/ CalculateComprehensiveMatchScore
    \/ IdentifyDeviceComprehensive

SpecMatch == MatchInit /\ [][MatchNext]_vars
\* ---- end of DeviceSignatureDatabase

(***************************************************************************)
(* Properties of _findPerformanceInflection                                *)
(***************************************************************************)
ClusterDone == clusterOut # NoValue

\* results.length > actualHardwareConcurrency: the scaling branch ran
ScalingApplied == ClusterDone /\ Len(clusterIn.results) > clusterIn.hc

\* C2: whenever more valid results than hardware threads were analysed, the
\* returned pCoreCount + eCoreCount equals the hardware concurrency, for
\* every H, every number of results and every split index, also after the
\* known-topology snapping for H = 8, 10, 12.
C2_ClusterCountConservation ==
    ScalingApplied =>
        clusterOut.pCoreCount + clusterOut.eCoreCount = clusterIn.hc

\* C2 witness: H = 10 with 20 results split 7 + 13: the raw scaled counts
\* 3.5 and 6.5 round to 4 + 7 = 11, the sum is repaired to 3 + 7 and the
\* split is snapped to the canonical 4 + 6.
C2_Witness ==
    /\ ScalingApplied
    /\ clusterIn.hc = 10
    /\ Len(clusterIn.results) = 20
    /\ clusterOut.rawPCoreCount = 7
    /\ clusterOut.pCoreCount = 4
    /\ clusterOut.eCoreCount = 6

\* The scenario of C10: H = 8 and 16 valid results, 8 fast and 8 slow, every
\* slow duration at least 1.3 times every fast one (the results are sorted,
\* so the slowest fast one and the fastest slow one decide).
EightFastEightSlow ==
    /\ ClusterDone
    /\ clusterIn.hc = 8
    /\ Len(clusterIn.results) = 16
    /\ FracGE(clusterIn.results[9], clusterIn.results[8],
              SignificantGapNum, SignificantGapDen)

\* C10: in that scenario, with any jitter or ties inside each group, the
\* analysis returns pCoreCount = 4, eCoreCount = 4 and confidence >= 70.
C10_CanonicalFourPlusFour ==
    EightFastEightSlow =>
        /\ clusterOut.pCoreCount = 4
        /\ clusterOut.eCoreCount = 4
        /\ clusterOut.confidence >= 70

(***************************************************************************)
(* Properties of the feature classifiers                                   *)
(***************************************************************************)
Classified == classification # NoValue

\* C1: the confidence classifyWASM and analyzeCPUType return lies in
\* [0, 95], for every fingerprint and every calibration table (or none),
\* after the calibration override and the prefetcher, SIMD and
\* worker-concurrency bonuses.
C1_ConfidenceBounds ==
    /\ Classified =>
          classification.confidence >= 0 /\ classification.confidence <= 95
    /\ cpuType # NoValue => cpuType.confidence >= 0 /\ cpuType.confidence <= 95

\* every entry of the memory profile carries the 'Too Fast' sentinel
AllTooFast == \A k \in DOMAIN fingerprint.memoryResults :
                  fingerprint.memoryResults[k] = TooFast

\* C6: when every ratio of the profile is 'Too Fast', the classifier
\* returns a defined fallback family with a confidence of at most 30,
\* whatever the other features are.
C6_SentinelLowConfidence ==
    (Classified /\ AllTooFast) =>
        /\ classification.family # NullStr
        /\ classification.confidence <= 30
        /\ cpuType.family # NullStr
        /\ cpuType.confidence <= 30

(***************************************************************************)
(* Properties of runMemoryTests                                            *)
(***************************************************************************)
\* the loop of the current size has ended and its entry is recorded
SizeFinished == memPc \in {"next", "done"} /\ sizeIdx > 0

\* both probes returned one constant duration, at or above the trust floor,
\* on every call made for the current size
ConstantPairs ==
    /\ Len(pairs) >= 1
    /\ \A i \in 1..Len(pairs) : pairs[i] = pairs[1]
    /\ SeqOf(pairs[1]) >= TrustFloor
    /\ RndOf(pairs[1]) >= TrustFloor

\* the iteration count after k growth steps
RECURSIVE ItersAfter(_, _)
ItersAfter(base, k) == IF k = 0 THEN base ELSE GrowIters(ItersAfter(base, k - 1))

\* C3 as stated: for probes that return the same constant duration (at
\* least the 0.4 ms trust floor) on every call, the loop stops after the
\* first paired measurement, with no further round and the iteration count
\* not grown.
C3_ConvergesInFirstRound ==
    (SizeFinished /\ ConstantPairs) =>
        /\ Len(pairs) = 1
        /\ iters = baseIterations

\* C3 amended: for such probes the loop stops as soon as the minimum of
\* five paired measurements is collected: after exactly five pairs and
\* four growth steps of the iteration count, and no round more.
C3_ConvergesAtMinimumPairs ==
    (SizeFinished /\ ConstantPairs) =>
        /\ Len(pairs) = MinPairs
        /\ guard = MinPairs
        /\ iters = ItersAfter(baseIterations, MinPairs - 1)
        /\ memResults[sizeIdx].iterations = iters
        /\ memResults[sizeIdx].ratio = PairRatio(pairs[1])

\* C3 witness: a size finished on five equal pairs of 1.0 ms and 1.2 ms,
\* the iteration count grown from 200 to 2098
C3_Witness ==
    /\ SizeFinished /\ ConstantPairs
    /\ pairs[1] = <<10, 12>>
    /\ Len(pairs) = 5
    /\ baseIterations = 200 /\ iters = 2098

\* C4: whatever the probes return, the loop of a size ends after at most
\* eight growth steps beyond the first pair, the iteration count never
\* exceeds the cap of 20000, and the ratio recorded for a size is a finite
\* positive number or the 'Too Fast' sentinel.
C4_BoundedGrowth ==
    /\ iters <= MaxIters
    /\ guard <= MaxGuard + 1
    /\ Len(pairs) <= MaxGuard + 1
    /\ memPc = "loop" => guard = Len(pairs) - 1
    /\ \A i \in 1..Len(memResults) :
          /\ memResults[i].iterations <= MaxIters
          /\ memResults[i].ratio = TooFast \/ FinitePositive(memResults[i].ratio)

\* C4 witness: a size whose pairs were still noisy after the eighth growth
\* step is finished with nine pairs at the cap, a numeric ratio recorded
C4_Witness ==
    /\ SizeFinished
    /\ Len(pairs) = MaxGuard + 1
    /\ TooNoisySoFar(pairs)
    /\ iters = MaxIters
    /\ FinitePositive(memResults[sizeIdx].ratio)

\* C5: the probe calls follow the input order of sizes: the positions the
\* calls are made for are 1, 2, 3, ... with no return to an earlier one,
\* the entries of all earlier sizes are recorded before the first call for
\* a size, and a measurement is suspended at the yield point only for the
\* size in hand.
C5_InputOrder ==
    /\ Len(callOrder) <= Len(sizes)
    /\ \A i \in 1..Len(callOrder) : callOrder[i] = i
    /\ Len(callOrder) >= 1 => Len(memResults) >= Len(callOrder) - 1
    /\ memPc \in {"measure", "yield", "loop"} =>
          /\ Len(memResults) = sizeIdx - 1
          /\ Len(callOrder) \in {sizeIdx - 1, sizeIdx}
    /\ pendingSeq # Null => memPc \in {"yield", "rejected"} /\ Len(callOrder) = sizeIdx
    /\ memPc = "done" =>
          /\ Len(callOrder) = Len(sizes)
          /\ Len(memResults) = Len(sizes)
          /\ \A i \in 1..Len(sizes) : memResults[i].size = sizes[i]

\* C5 witness: the sizes 256, 16 were measured in that order, the second
\* one over several rounds, each suspended at the yield point
C5_Witness ==
    /\ memPc = "done"
    /\ sizes = <<256, 16>>
    /\ callOrder = <<1, 2>>
    /\ Len(pairs) = MaxGuard + 1
    /\ memResults[1].size = 256 /\ memResults[2].size = 16

(***************************************************************************)
(* Properties of profileWorkerPerformance and profileWorkerCapacity        *)
(***************************************************************************)
\* the call has delivered its result
Returned == wPc = "returned"

\* the reported hardware concurrency is missing or below 2
CoresMissingOrBelowTwo == wCall.hc = Null \/ wCall.hc < 2

\* the result carries none of the fields of a cluster split
NoClusterSplit ==
    {"pCores", "eCores", "analysis", "performanceGap"} \cap DOMAIN wResult = {}

\* C7: on every exit path of profileWorkerPerformance and of
\* profileWorkerCapacity, when the result is delivered every worker the
\* call constructed is terminated and the blob URL, if one was created,
\* is revoked.
C7_AllWorkersReleased ==
    (Returned \/ wResult # NoValue) =>
        /\ \A i \in 1..Len(workers) : workers[i] = "terminated"
        /\ urlState # "created"

\* C7 witness: profileWorkerPerformance whose third constructor threw and
\* whose dispatch threw for one of the two workers made has returned
\* unavailable, both workers terminated and the URL revoked
C7_Witness ==
    /\ Returned /\ IsPerformance
    /\ wCall.hc = 2 /\ wCall.maxProbe = 4
    /\ Len(workers) = 2
    /\ \E i \in 1..2 : tasks[i].state = "rejected"
    /\ workers = <<"terminated", "terminated">>
    /\ urlState = "revoked"
    /\ wResult.available = FALSE

\* C8: when fewer than 2 valid results remain after the timed-out and the
\* errored tasks are excluded, profileWorkerPerformance returns
\* available = false with a non-empty reason string and no cluster split.
C8_NoFabricatedSplit ==
    (Returned /\ IsPerformance /\ Len(ValidDurations(tasks)) < 2) =>
        /\ wResult.available = FALSE
        /\ wResult.failureReason \notin ErrorObjects \cup {NullStr, ""}
        /\ NoClusterSplit

\* C8 witness: four tasks, one valid result, the others timed out or
\* failed; the call returned the reason of line 466
C8_Witness ==
    /\ Returned /\ IsPerformance
    /\ Len(tasks) = 4
    /\ Len(ValidDurations(tasks)) = 1
    /\ \E i \in 1..4 : tasks[i].error = "Worker timeout"
    /\ \E i \in 1..4 : tasks[i].error = "script error"
    /\ wResult.failureReason = "Insufficient valid results for analysis"

\* C9: when the Worker API is unavailable, or the reported hardware
\* concurrency is missing or below 2, profileWorkerPerformance constructs
\* no worker and creates no URL, and returns available = false with the
\* reason of the case (missing Worker support first) and no cluster split.
C9_EarlyReturns ==
    (IsPerformance /\ (~wCall.workerApi \/ CoresMissingOrBelowTwo)) =>
        /\ workers = << >> /\ tasks = << >> /\ urlState = "none"
        /\ Returned =>
              /\ wResult.available = FALSE
              /\ wResult.failureReason =
                    IF ~wCall.workerApi THEN "Worker API unavailable"
                    ELSE "Insufficient cores for P/E core detection"
              /\ NoClusterSplit

\* C9 witness: the Worker API is there, one core is reported, and the call
\* has returned the insufficient-cores reason
C9_Witness ==
    /\ Returned /\ IsPerformance
    /\ wCall.workerApi /\ wCall.hc = 1
    /\ wResult.available = FALSE
    /\ wResult.failureReason = "Insufficient cores for P/E core detection"
    /\ workers = << >>

(***************************************************************************)
(* Properties of the memory profile and its derived bands                  *)
(***************************************************************************)
\* each probe takes one constant positive duration on every call
ConstantProbes ==
    /\ Cardinality(probes.seq) = 1 /\ Cardinality(probes.rnd) = 1
    /\ \A s \in probes.seq : s > 0
    /\ \A r \in probes.rnd : r > 0

\* r / s of the constant durations
ProbeRatio ==
    LET s == CHOOSE x \in probes.seq : TRUE
        r == CHOOSE x \in probes.rnd : TRUE
    IN <<r \div GCD(r, s), s \div GCD(r, s)>>

\* C11: with a sequential probe of constant time s > 0 and a random probe
\* of constant time r > 0 at every size of 16/32/64/256 KB, the ratio
\* recorded for every size is r / s exactly, and the derived L1-band and
\* deep-band averages (of generateFingerprint and of analyzeCPUType) are
\* r / s as well.
C11_ConstantProbeRatio ==
    ConstantProbes =>
        /\ \A i \in 1..Len(memResults) : memResults[i].ratio = ProbeRatio
        /\ fingerprint # NoValue =>
              /\ DOMAIN fingerprint.memoryResults = {16, 32, 64, 256}
              /\ \A k \in {16, 32, 64, 256} :
                    fingerprint.memoryResults[k] = ProbeRatio
              /\ fingerprint.features.mem_ratio_l1_band = ProbeRatio
              /\ fingerprint.features.mem_ratio_deep = ProbeRatio
        /\ cpuType # NoValue =>
              /\ cpuType.l1Band = ProbeRatio
              /\ cpuType.deepBand = ProbeRatio

\* C11 witness: probes of 1.0 ms and 1.2 ms, the four sizes measured, the
\* bands derived as 6/5
C11_Witness ==
    /\ probes = [seq |-> {10}, rnd |-> {12}]
    /\ Len(memResults) = 4
    /\ cpuType # NoValue
    /\ cpuType.l1Band = <<6, 5>>
    /\ fingerprint.features.mem_ratio_deep = <<6, 5>>

(***************************************************************************)
(* Properties of the device matcher                                        *)
(***************************************************************************)
MatchReturned(op) == matchOut # NoValue /\ matchOut.op = op

\* every confidence the returned value reports
ReportedConfidences ==
    IF matchOut = NoValue THEN {}
    ELSE IF matchOut.op = "calculateConfidence" THEN {matchOut.value}
    ELSE IF matchOut.op = "findSimilarDevices"
         THEN {matchOut.value[i].confidence : i \in 1..Len(matchOut.value)}
    ELSE IF matchOut.op = "identifyDevice"
            \/ (matchOut.op = "identifyDeviceComprehensive" /\ ~matchOut.value.threw)
         THEN {matchOut.value.confidence}
              \cup {matchOut.value.alternatives[i].confidence :
                       i \in 1..Len(matchOut.value.alternatives)}
    ELSE {}

\* C12: every confidence the matcher reports -- calculateConfidence's value
\* for any score >= 0 and any base confidence in 0..100 (98 included), the
\* best candidate and the alternatives of identifyDevice and
\* identifyDeviceComprehensive, the candidates of findSimilarDevices and the
\* no-match result -- lies between 0 and 95.
C12_MatcherConfidenceBounds ==
    \A c \in ReportedConfidences : RLE(RI(0), c) /\ RLE(c, RI(95))

\* the cap is at work: base confidence 98 and a score of 100 or more
C12_Witness ==
    /\ MatchReturned("calculateConfidence")
    /\ matchIn.profileConfidence = 98 /\ RLE(RI(100), matchIn.matchScore)
    /\ matchOut.value = RI(95)

InsideRange(value, range) == RLE(range.min, value) /\ RLE(value, range.max)

\* the full credits of the ratio entries of cpuFeatures that lie inside
\* the profile's memoryRatio range
FullRatioCredits(cpuFeatures, range) ==
    (IF IsNum(cpuFeatures.memRatio) /\ InsideRange(cpuFeatures.memRatio, range)
     THEN 25 ELSE 0)
    + (IF IsNum(cpuFeatures.memRatioDeep) /\ InsideRange(cpuFeatures.memRatioDeep, range)
       THEN 18 ELSE 0)
    + (IF IsNum(cpuFeatures.memRatioL1) /\ InsideRange(cpuFeatures.memRatioL1, range)
       THEN 12 ELSE 0)

\* C13: a numeric sub-feature whose observed value lies inside the profile's
\* expected [min, max] receives the full credit of that sub-feature: 25 for
\* the L1 cache size and 15 for the memory ratio in
\* calculateComprehensiveMatchScore, maxScore (25, 18, 12) for each ratio
\* entry of calculateMatchScore.
C13_InRangeFullCredit ==
    /\ MatchReturned("calculateComprehensiveMatchScore") =>
          /\ ( /\ matchIn.features.l1CacheKB # Null
               /\ DeviceProfiles[matchOut.profile].cpu.l1CacheKB # NoValue
               /\ matchIn.features.l1CacheKB
                    >= DeviceProfiles[matchOut.profile].cpu.l1CacheKB.min
               /\ matchIn.features.l1CacheKB
                    <= DeviceProfiles[matchOut.profile].cpu.l1CacheKB.max )
             => matchOut.value.l1Cache = RI(25)
          /\ ( /\ IsNum(matchIn.features.memoryRatio)
               /\ InsideRange(matchIn.features.memoryRatio,
                              DeviceProfiles[matchOut.profile].cpu.memoryRatio) )
             => matchOut.value.memoryRatio = RI(15)
    /\ (MatchReturned("calculateMatchScore") /\ matchIn.cpuFeatures # NoValue) =>
          RLE(RI(FullRatioCredits(matchIn.cpuFeatures,
                                  DeviceProfiles[matchOut.profile].cpu.memoryRatio)),
              matchOut.value.cpu)

\* the profiles the features match on every sub-feature: the same core
\* counts, L1 size and memory ratio inside the ranges, WebGL vendor and
\* renderer, WebGPU vendor and architecture
PerfectMatches(features) ==
    {i \in 1..Len(DeviceProfiles) :
       /\ DeviceProfiles[i].cpu.cores # NoValue
       /\ features.cores = DeviceProfiles[i].cpu.cores
       /\ features.l1CacheKB # Null
       /\ features.l1CacheKB >= DeviceProfiles[i].cpu.l1CacheKB.min
       /\ features.l1CacheKB <= DeviceProfiles[i].cpu.l1CacheKB.max
       /\ IsNum(features.memoryRatio)
       /\ InsideRange(features.memoryRatio, DeviceProfiles[i].cpu.memoryRatio)
       /\ features.webglAnalysis # NoValue
       /\ _matchWebGLFeatures(DeviceProfiles[i].gpu.webgl,
                              features.webglAnalysis).score = 10
       /\ features.webgpuAnalysis # NoValue
       /\ DeviceProfiles[i].gpu.webgpu # NoValue
       /\ _matchWebGPUFeatures(DeviceProfiles[i].gpu.webgpu,
                               features.webgpuAnalysis).score = 5}

\* C14: when the features match a profile on every sub-feature,
\* identifyDeviceComprehensive returns that profile as deviceModel, with its
\* evidence, and not 'Unknown Device'.
C14_PerfectMatchIsTop ==
    ( /\ MatchReturned("identifyDeviceComprehensive")
      /\ PerfectMatches(matchIn.features) # {} )
    => /\ ~matchOut.value.threw
       /\ \E i \in PerfectMatches(matchIn.features) :
             matchOut.value.deviceModel
               = <<DeviceProfiles[i].brand, DeviceProfiles[i].deviceName>>

\* the weighted sum of the sub-scores a score object carries
WeightedOf(op, scores) ==
    IF op = "calculateMatchScore"
    THEN RAdd(RMul(scores.cpu, R(45, 100)),
              RAdd(RMul(scores.webgl, R(25, 100)), RMul(scores.webgpu, R(30, 100))))
    ELSE RAdd(RMul(scores.cores, R(40, 100)),
         RAdd(RMul(scores.l1Cache, R(25, 100)),
         RAdd(RMul(scores.memoryRatio, R(15, 100)),
         RAdd(RMul(scores.webgl, R(10, 100)),
         RAdd(RMul(scores.webgpu, R(5, 100)),
              RMul(scores.performance, R(5, 100)))))))

\* C15: the score a candidate gets is its weighted sum less 5 per
\* contradiction, the deduction being at most 15 in calculateMatchScore and
\* at most 20 in calculateComprehensiveMatchScore, and never below 0; it
\* never exceeds 100.
C15_BoundedPenalty ==
    ( matchOut # NoValue
      /\ matchOut.op \in {"calculateMatchScore", "calculateComprehensiveMatchScore"} )
    => /\ RLE(RI(0), matchOut.value.total)
       /\ RLE(matchOut.value.total, RI(100))
       /\ matchOut.value.total
            = RMax(RI(0),
                   RSub(WeightedOf(matchOut.op, matchOut.value),
                        RI(Min(IF matchOut.op = "calculateMatchScore" THEN 15 ELSE 20,
                               5 * Len(matchOut.value.contradictions)))))

\* more contradictions than the cap pays for, and a score left over
C15_Witness ==
    /\ MatchReturned("calculateMatchScore")
    /\ Len(matchOut.value.contradictions) >= 4
    /\ RLT(RI(0), matchOut.value.total)

\* the GPU features carry the ANGLE string of an Apple M4 Pro and the
\* profile expects the vendor "apple" and the architecture "metal-3"
AngleAgainstMetal3 ==
    /\ MatchReturned("calculateMatchScore")
    /\ DeviceProfiles[matchOut.profile].gpu.webgpu # NoValue
    /\ DeviceProfiles[matchOut.profile].gpu.webgpu.vendor = StrAppleLower
    /\ DeviceProfiles[matchOut.profile].gpu.webgpu.architecture = StrMetal3
    /\ matchIn.webglAnalysis # NoValue
    /\ matchIn.webglAnalysis.rawVendor = StrAngleM4Pro
    /\ matchIn.webglAnalysis.rawRenderer = StrAngleM4Pro
    /\ matchIn.webgpuAnalysis # NoValue
    /\ matchIn.webgpuAnalysis.rawAdapter # NoValue
    /\ matchIn.webgpuAnalysis.rawAdapter.vendor = StrAngleM4Pro
    /\ matchIn.webgpuAnalysis.rawAdapter.architecture = StrAngleM4Pro

GpuContradictions ==
    {"WebGL vendor mismatch", "Canvas fingerprint does not match expected pattern",
     "WebGPU vendor mismatch", "WebGPU architecture mismatch"}

\* C16: for the ANGLE string of an Apple M4 Pro against a profile expecting
\* vendor "apple" and architecture "metal-3", the vendor sub-scores get
\* their full credit by token equality (20 for WebGL, 25 for WebGPU), the
\* architecture sub-score its full credit (20), and no GPU contradiction is
\* recorded (none at all when no CPU features are given).
C16_AngleTokensMatch ==
    AngleAgainstMetal3 =>
       /\ "Vendor match" \in Range(matchOut.value.details.webgl)
       /\ "WebGPUVendor match" \in Range(matchOut.value.details.webgpu)
       /\ "Architecture match" \in Range(matchOut.value.details.webgpu)
       /\ matchOut.value.webgpu
            = RI(45 + IF matchIn.webgpuAnalysis.confidence > 80 THEN 10 ELSE 0)
       /\ Range(matchOut.value.contradictions) \cap GpuContradictions = {}
       /\ matchIn.cpuFeatures = NoValue => matchOut.value.contradictions = << >>

C16_Witness ==
    /\ AngleAgainstMetal3
    /\ matchIn.cpuFeatures = NoValue
    /\ matchOut.value.webgpu = RI(55)

(***************************************************************************)
(* Properties of the band averages (generateFingerprint, analyzeCPUType,   *)
(* _safeOverallRatio)                                                      *)
(***************************************************************************)
\* the sizes among keys whose recorded ratio is a number
FiniteKeys(mr, keys) == {k \in keys \cap DOMAIN mr : IsNum(mr[k])}

\* b is the mean of the finite ratios among keys: absent when there is
\* none, otherwise b times their count is their sum
IsFiniteMean(b, mr, keys) ==
    \E F \in {FiniteKeys(mr, keys)} :
        IF F = {} THEN b = NoRatio
        ELSE /\ IsNum(b)
             /\ RMul(b, R(Cardinality(F), 1)) = SumOver(mr, F)

\* C17: the L1-band, deep-band and overall averages derived from a memory
\* profile leave every size whose ratio is 'Too Fast' out of the average
\* (it adds nothing to the sum and nothing to the divisor), and a band with
\* no finite ratio is reported as absent, never as 0.  This holds for the
\* features of the fingerprint, for the bands analyzeCPUType returns and
\* for the bands classifyWASM returns.
C17_TooFastLeftOut ==
    fingerprint # NoValue =>
        \E mr \in {fingerprint.memoryResults} :
            /\ IsFiniteMean(fingerprint.features.mem_ratio_l1_band, mr, l1BandKeys)
            /\ IsFiniteMean(fingerprint.features.mem_ratio_deep, mr,
                            {k \in DOMAIN mr : k >= 256})
            /\ cpuType # NoValue =>
                   /\ IsFiniteMean(cpuType.l1Band, mr, l1BandKeys)
                   /\ IsFiniteMean(cpuType.deepBand, mr,
                                   {k \in DOMAIN mr : k >= 256})
                   /\ IsFiniteMean(cpuType.overall, mr, DOMAIN mr)
            /\ classification # NoValue =>
                   /\ IsFiniteMean(classification.l1Band, mr, l1BandKeys)
                   /\ IsFiniteMean(classification.deepBand, mr,
                                   {k \in DOMAIN mr : k >= 256})
                   /\ IsFiniteMean(classification.overall, mr, DOMAIN mr)

\* Both classifiers have run on a profile whose L1 band is all 'Too Fast'
\* (reported absent) and whose deep band mixes one 'Too Fast' size with one
\* measured size (the average is the measured ratio itself).
C17_Witness ==
    /\ fingerprint # NoValue /\ cpuType # NoValue /\ classification # NoValue
    /\ fingerprint.memoryResults[32] = TooFast
    /\ fingerprint.memoryResults[256] = TooFast
    /\ fingerprint.memoryResults[4096] = R(165, 100)
    /\ cpuType.l1Band = NoRatio
    /\ cpuType.deepBand = R(165, 100)
    /\ classification.overall = R(165, 100)
    /\ fingerprint.features.mem_ratio_deep = R(165, 100)

(***************************************************************************)
(* Properties of the split selection of _findPerformanceInflection         *)
(***************************************************************************)
\* The sorted durations form two groups: their largest adjacent jump is a
\* ratio of at least 1.3.
TwoGroups == ClusterDone /\ SignificantGap(clusterIn.results)

\* the number of results before the largest jump
JumpIndex == MaxGapIndex(clusterIn.results)

\* C18: when the sorted valid durations form two groups separated by a
\* largest adjacent jump of ratio >= 1.3, the raw fast cluster is exactly
\* the results before that jump and the raw slow cluster exactly the results
\* after it, and the reported performanceGap is mean(slow group) /
\* mean(fast group): no slow-group result is assigned to the fast cluster.
C18_SplitAtLargestJump ==
    TwoGroups =>
        \E i \in {JumpIndex}, n \in {Len(clusterIn.results)} :
            /\ clusterOut.rawPCoreCount = i
            /\ clusterOut.rawECoreCount = n - i
            /\ clusterOut.performanceGap[1]
                   * (SumRange(clusterIn.results, 1, i) * (n - i))
               = clusterOut.performanceGap[2]
                   * (SumRange(clusterIn.results, i + 1, n) * i)

(***************************************************************************)
(* Properties of the per-task timeouts of profileWorkerPerformance         *)
(***************************************************************************)
\* the first event handled for task i is ev
FirstEvent(i, ev) == Len(tasks[i].log) > 0 /\ tasks[i].log[1] = ev

\* the number of tasks whose first event was a result of d ms
Responsive(d) ==
    Cardinality({i \in 1..Len(tasks) :
                    FirstEvent(i, "result") /\ tasks[i].duration = d})

\* how often d occurs in the sequence s
Occurrences(s, d) == Cardinality({k \in 1..Len(s) : s[k] = d})

\* A task whose timer fired first stays the null-duration 'Worker timeout'
\* result, whatever arrives later.
TimedOutStaysExcluded ==
    IsPerformance =>
        \A i \in 1..Len(tasks) :
            FirstEvent(i, "timeout") =>
                /\ tasks[i].state = "resolved"
                /\ tasks[i].duration = Null
                /\ tasks[i].error = "Worker timeout"

\* The analysis is made of the durations of the responsive workers, each
\* once, and of nothing else; without an analysis fewer than two workers
\* were responsive.
ResponsiveAllUsed ==
    (IsPerformance /\ wPc = "returned" /\ Len(tasks) > 0
        /\ \A i \in 1..Len(tasks) : tasks[i].state = "resolved") =>
        IF wResult.available
        THEN /\ \A d \in WorkerDurations :
                    Occurrences(wResult.results, d) = Responsive(d)
             /\ Len(wResult.results)
                    = Cardinality({i \in 1..Len(tasks) : FirstEvent(i, "result")})
             /\ wResult.totalWorkers = Len(wResult.results)
        ELSE Cardinality({i \in 1..Len(tasks) : FirstEvent(i, "result")}) < 2

\* A settled task keeps its one result.
SettledOnce ==
    \A i \in 1..Len(tasks) :
        (IsPerformance /\ tasks[i].state = "resolved") =>
            /\ Len(tasks') = Len(tasks)
            /\ tasks'[i].state = tasks[i].state
            /\ tasks'[i].duration = tasks[i].duration
            /\ tasks'[i].error = tasks[i].error

\* C19: if some workers never respond, profileWorkerPerformance still
\* eventually returns: each unresponsive task is resolved by its own
\* timeout as a null-duration error result that is excluded from
\* clustering (even if its message arrives later), every task contributes
\* at most one result, and the durations reported by all responsive
\* workers are used in the analysis.
C19_TimeoutsUnblockTheCall ==
    /\ [](TimedOutStaysExcluded /\ ResponsiveAllUsed)
    /\ [][SettledOnce]_vars
    /\ ((IsPerformance /\ wPc = "await") ~> (wPc = "returned"))

\* The call has returned an analysis of the two responsive workers although
\* one worker answered only after its timeout and another never did.
C19_Witness ==
    /\ IsPerformance /\ wPc = "returned" /\ wResult.available
    /\ Len(tasks) = 4
    /\ \E i \in 1..4 : tasks[i].log = <<"timeout", "result">>
    /\ \E i \in 1..4 : tasks[i].log = <<"timeout">>
    /\ Len(wResult.results) = 2
    /\ wResult.results = <<5, 10>>

(***************************************************************************)
(* Properties of the order of calls in measurePair                         *)
(***************************************************************************)
\* one paired round: eviction, sequential probe (A), the tick, random
\* probe (B)
RoundCalls == <<"evict", "seq", "nextTick", "rnd">>

\* The calls made so far are whole rounds in the fixed order, followed by
\* the beginning of one more.
InFixedOrder ==
    \A k \in 1..Len(probeLog) :
        probeLog[k] = RoundCalls[((k - 1) % Len(RoundCalls)) + 1]

\* Where the function stands agrees with the log: suspended in nextTick
\* after A and the tick of this round and before its B; between rounds
\* every round begun is complete.
RoundsComplete ==
    /\ memPc = "yield" => Len(probeLog) % Len(RoundCalls) = 3
    /\ memPc \in {"measure", "loop", "next", "done"} =>
           Len(probeLog) % Len(RoundCalls) = 0
    /\ memPc = "loop" => Len(probeLog) >= Len(RoundCalls) * Len(pairs)

\* A step that invokes B resumes the round suspended after its A, and a
\* step that invokes A begins a round after the B of the one before has
\* returned; calls are only ever added to the log.
ProbeSteps ==
    /\ Len(probeLog') >= Len(probeLog)
    /\ SubSeq(probeLog', 1, Len(probeLog)) = probeLog
    /\ Len(probeLog') > Len(probeLog) =>
          IF probeLog'[Len(probeLog')] = "rnd"
          THEN /\ memPc = "yield" /\ pendingSeq # Null
               /\ Len(probeLog') = Len(probeLog) + 1
          ELSE /\ memPc = "measure" /\ pendingSeq = Null
               /\ Len(probeLog) % Len(RoundCalls) = 0

\* C20: in every paired round of the sampler, for every size and every
\* round, the calls happen in the fixed order eviction probe, sequential
\* probe (A), exactly one cooperative yield, random probe (B); B is never
\* invoked before A of the same round and the next round's probes never
\* start before B has returned.
C20_FixedProbeOrder ==
    /\ [](InFixedOrder /\ RoundsComplete)
    /\ [][ProbeSteps]_vars

\* Two sizes have been measured in five rounds each: forty calls.
C20_Witness ==
    /\ memPc = "done"
    /\ Len(sizes) = 2 /\ Len(memResults) = 2
    /\ Len(probeLog) = 10 * Len(RoundCalls)
    /\ SubSeq(probeLog, 37, 40) = RoundCalls

(***************************************************************************)
(* Properties of the recorded ratio (ratioMedian)                          *)
(***************************************************************************)
\* the finite, positive per-round ratios of the size measured last, sorted
LastRatioSamples ==
    SortRatios(SelectSeq([i \in 1..Len(pairs) |-> PairRatio(pairs[i])],
                         FinitePositive))

\* the median as statsOf defines it: the middle value, or the average of
\* the two middle values of an even number of samples
StatsMedian(sorted) ==
    IF Len(sorted) % 2 = 1 THEN sorted[(Len(sorted) - 1) \div 2 + 1]
    ELSE RDiv(RAdd(sorted[Len(sorted) \div 2], sorted[Len(sorted) \div 2 + 1]),
              R(2, 1))

\* a size has just been recorded and its pairs are still in hand
SizeRecorded ==
    /\ memPc \in {"next", "done"}
    /\ sizeIdx >= 1 /\ Len(memResults) = sizeIdx

\* C21: the ratio recorded for a size is the median of the finite, positive
\* per-round ratios collected for that size, the median of an even number
\* of samples being the average of the two middle values, as statsOf
\* defines the median.
C21_RatioIsStatsMedian ==
    (SizeRecorded /\ Len(LastRatioSamples) > 0) =>
        memResults[sizeIdx].ratio = StatsMedian(LastRatioSamples)

(***************************************************************************)
(* Properties of the trimming in statsOf                                   *)
(***************************************************************************)
\* the arrays the loop hands to statsOf: the positive times of the pairs
\* collected so far (common.js 79-82)
StatsInputs ==
    {SelectSeq(SeqTimes(pairs), IsPositive), SelectSeq(RndTimes(pairs), IsPositive)}

\* how many of n sorted values the slice leaves out below and above
TrimmedLow(n) == Min(TrimCut(n), n)
TrimmedHigh(n) == n - Min(TrimEnd(n), n)

\* C22: for every non-empty input, including those of length 1 and 2,
\* statsOf trims as many elements from the low end as from the high end and
\* leaves a non-empty middle slice, so the trimmed mean is a defined number
\* computed from at least one sample.
C22_SymmetricNonEmptyTrim ==
    memPc = "loop" =>
        \A arr \in StatsInputs :
            Len(arr) > 0 =>
                /\ TrimmedLow(Len(arr)) = TrimmedHigh(Len(arr))
                /\ Len(arr) - TrimmedLow(Len(arr)) - TrimmedHigh(Len(arr)) >= 1
                /\ IsNum(statsOf(arr).mean)

(***************************************************************************)
(* Properties of a failing probe in runMemoryTests                         *)
(***************************************************************************)
\* the failure became an entry for the size in hand and the loop goes on
FailureRecorded ==
    /\ memPc' \in {"next", "measure"}
    /\ Len(memResults') = Len(memResults) + 1
    /\ memResults'[Len(memResults')].size = sizes[sizeIdx]

\* C23: if the sequential or random probe throws while one size is being
\* measured, runMemoryTests does not abort the loop over the sizes: the
\* failure is turned into a sentinel entry for that size, the remaining
\* sizes are still measured, and a profile is returned.
C23_ProbeFailureIsolated == [][ProbeThrows => FailureRecorded]_vars

(***************************************************************************)
(* loadCalibration, common.js 120-138: several calls on one object, each   *)
(* suspended at `await fetch(...)` and at `await res.json()`               *)
(***************************************************************************)
\* the calls of loadCalibration that may be in flight together
NumLoads == 3

\* a call that has not started yet
IdleLoad(hasFetch) ==
    [pc |-> "idle", value |-> NoValue, line |-> 0, hasFetch |-> hasFetch]

\* new WASMFingerprint(): this._calibration = null (common.js 6); the
\* environment either has a global fetch or has none (common.js 125)
CalInit ==
    /\ _calibration = NoValue
    /\ windowCal = NoValue
    /\ \E hasFetch \in BOOLEAN :
          loaders = [i \in 1..NumLoads |-> IdleLoad(hasFetch)]
    /\ fetches = 0
    /\ ClusterIdle /\ ClassifyIdle /\ MemIdle /\ WorkerIdle /\ MatchIdle
    /\ LearnIdle

\* the call returns v from the given line of loadCalibration
LoadReturned(l, v, line) ==
    [l EXCEPT !.pc = "returned", !.value = v, !.line = line]

\* if (this._calibration) return this._calibration; common.js 122
LoadCached(i) ==
    /\ loaders[i].pc = "idle"
    /\ _calibration # NoValue
    /\ loaders' = [loaders EXCEPT ![i] = LoadReturned(@, _calibration, 122)]
    /\ UNCHANGED <<_calibration, windowCal, fetches>>
    /\ UNCHANGED <<clusterVars, classifyVars, memVars, workerVars, matchVars,
                   learnVars>>

\* typeof fetch !== 'function': this._calibration = null; return null;
\* common.js 125, 136-137
LoadNoFetch(i) ==
    /\ loaders[i].pc = "idle"
    /\ _calibration = NoValue
    /\ ~loaders[i].hasFetch
    /\ _calibration' = NoValue
    /\ loaders' = [loaders EXCEPT ![i] = LoadReturned(@, NoValue, 137)]
    /\ UNCHANGED <<windowCal, fetches>>
    /\ UNCHANGED <<clusterVars, classifyVars, memVars, workerVars, matchVars,
                   learnVars>>

\* const res = await fetch('./docs/device-database/calibration.json', ...):
\* the request is issued and the call is suspended, common.js 126
LoadFetch(i) ==
    /\ loaders[i].pc = "idle"
    /\ _calibration = NoValue
    /\ loaders[i].hasFetch
    /\ fetches' = fetches + 1
    /\ loaders' = [loaders EXCEPT ![i].pc = "fetching"]
    /\ UNCHANGED <<_calibration, windowCal>>
    /\ UNCHANGED <<clusterVars, classifyVars, memVars, workerVars, matchVars,
                   learnVars>>

\* the fetch rejects (caught at line 135) or res.ok is false (line 127):
\* this._calibration = null; return null; common.js 136-137
FetchFails(i) ==
    /\ loaders[i].pc = "fetching"
    /\ _calibration' = NoValue
    /\ loaders' = [loaders EXCEPT ![i] = LoadReturned(@, NoValue, 137)]
    /\ UNCHANGED <<windowCal, fetches>>
    /\ UNCHANGED <<clusterVars, classifyVars, memVars, workerVars, matchVars,
                   learnVars>>

\* res.ok: the call is suspended in `await res.json()`, common.js 127-128
FetchOk(i) ==
    /\ loaders[i].pc = "fetching"
    /\ loaders' = [loaders EXCEPT ![i].pc = "parsing"]
    /\ UNCHANGED <<_calibration, windowCal, fetches>>
    /\ UNCHANGED <<clusterVars, classifyVars, memVars, workerVars, matchVars,
                   learnVars>>

\* this._calibration = await res.json(); window.__WASM_CALIBRATION__ =
\* this._calibration; return this._calibration; common.js 128-132.  The
\* request is made with cache: 'no-store', so each call reads the file as
\* it is on the server at that moment.
JsonResolves(i) ==
    /\ loaders[i].pc = "parsing"
    /\ \E table \in CalibrationTables :
          /\ _calibration' = table
          /\ windowCal' = table
          /\ loaders' = [loaders EXCEPT ![i] = LoadReturned(@, table, 132)]
    /\ UNCHANGED fetches
    /\ UNCHANGED <<clusterVars, classifyVars, memVars, workerVars, matchVars,
                   learnVars>>

\* res.json() rejects: caught at line 135, then this._calibration = null;
\* return null; common.js 136-137
JsonRejects(i) ==
    /\ loaders[i].pc = "parsing"
    /\ _calibration' = NoValue
    /\ loaders' = [loaders EXCEPT ![i] = LoadReturned(@, NoValue, 137)]
    /\ UNCHANGED <<windowCal, fetches>>
    /\ UNCHANGED <<clusterVars, classifyVars, memVars, workerVars, matchVars,
                   learnVars>>

CalNext ==
    \E i \in 1..NumLoads :
        \/ LoadCached(i)
        \/ LoadNoFetch(i)
        \/ LoadFetch(i)
        \/ FetchFails(i)
        \/ FetchOk(i)
        \/ JsonResolves(i)
        \/ JsonRejects(i)

SpecCal == CalInit /\ [][CalNext]_vars

\* the cache, once it holds a table, keeps that table
CacheKept == _calibration # NoValue => _calibration' = _calibration

\* C24: under any interleaving of concurrent loadCalibration calls the
\* calibration table is fetched at most once, and once a table is stored
\* in the cache it is never replaced or reset: a later or concurrent
\* failing load never sets the cached table back to null.
C24_FetchedOnceAndKept == [](fetches <= 1) /\ [][CacheKept]_vars

(***************************************************************************)
(* Properties of the calibration override in classifyWASM                  *)
(***************************************************************************)
\* classifyWASM's family and confidence when the override step is left out
WithoutOverride(fp) ==
    CHOOSE r \in {WorkerCapBonus(s, fp) :
                    s \in {SIMDBonus(p, fp) :
                       p \in {PrefetchBonus(b, fp) : b \in {RuleCascade(fp)}}}} :
        TRUE

\* best[1]: the largest score a table entry reaches for the fingerprint
BestScore(fp, cal) ==
    BestEntry(CalScores(cal.bands, fp.features.mem_ratio_l1_band,
                        fp.features.mem_ratio_deep,
                        _safeOverallRatio(fp.memoryResults)))[2]

\* C25: with a calibration table classifyWASM replaces the family of the
\* rule cascade only if the best calibration score is above 0.05, and the
\* confidence after the override is never lower than the cascade's; with no
\* table (none shipped, or the load failed) family and confidence are what
\* the cascade and the later bonuses alone produce.
C25_OverrideOnlyRaises ==
    Classified =>
        \A plain \in {WithoutOverride(fingerprint)} :
            IF calibration = NoValue
            THEN /\ classification.family = plain.family
                 /\ classification.confidence = plain.confidence
            ELSE /\ classification.family # plain.family
                    => RLT(R(5, 100), BestScore(fingerprint, calibration))
                 /\ classification.confidence >= plain.confidence

\* a table entry replaced the cascade's family although its score, as a
\* percentage, is below the cascade's confidence
C25_Witness ==
    /\ Classified
    /\ calibration # NoValue
    /\ classification.family # RuleCascade(fingerprint).family
    /\ RRound(RMul(BestScore(fingerprint, calibration), R(100, 1)))
          < RuleCascade(fingerprint).confidence

(***************************************************************************)
(* Properties of the credit of a value outside the profile's range         *)
(***************************************************************************)
\* how far value lies outside [range.min, range.max]; 0 inside
OutsideBy(value, range) ==
    IF RLT(value, range.min) THEN RSub(range.min, value)
    ELSE IF RLT(range.max, value) THEN RSub(value, range.max)
    ELSE RI(0)

\* value is credited no less than other when other lies outside the range
\* and value lies inside it or no further outside
NoLessCredit(value, credit, other, otherCredit, range) ==
    ( /\ RLT(RI(0), OutsideBy(other, range))
      /\ RLE(OutsideBy(value, range), OutsideBy(other, range)) )
    => RLE(otherCredit, credit)

\* the values a credit is compared with: L1 sizes in KB, memory ratios
L1Alternatives == {127, 190, 203, 215}
RatioAlternatives == {R(95, 100), R(11, 10), R(14, 10), R(145, 100), R(5, 1)}

\* the sub-scores of profile i for the features f
ComprehensiveScores(i, f) ==
    calculateComprehensiveMatchScore(DeviceProfiles[i].brand, DeviceProfiles[i],
                                     f, _assessNoiseFactors(f))

\* scores.cpu of profile i for cpuFeatures without calibration bands
CpuScore(i, cpuFeatures, gl, gpu) ==
    calculateMatchScore(NoValue, DeviceProfiles[i].brand, DeviceProfiles[i],
                        cpuFeatures, gl, gpu).cpu

L1RangeOf(i) ==
    [min |-> RI(DeviceProfiles[i].cpu.l1CacheKB.min),
     max |-> RI(DeviceProfiles[i].cpu.l1CacheKB.max)]

\* C26: for a value outside a profile's [min, max] the credit does not grow
\* with the distance from the range, and no value outside the range is
\* credited more than a value inside it: for the L1 cache size and the
\* memory ratio of calculateComprehensiveMatchScore and for the overall
\* memory ratio of calculateMatchScore without calibration bands.
C26_CreditFallsWithDistance ==
    /\ MatchReturned("calculateComprehensiveMatchScore") =>
          /\ ( /\ matchIn.features.l1CacheKB # Null
               /\ DeviceProfiles[matchOut.profile].cpu.l1CacheKB # NoValue )
             => \A w \in L1Alternatives :
                   NoLessCredit(RI(matchIn.features.l1CacheKB),
                                matchOut.value.l1Cache, RI(w),
                                ComprehensiveScores(matchOut.profile,
                                    [matchIn.features EXCEPT !.l1CacheKB = w]).l1Cache,
                                L1RangeOf(matchOut.profile))
          /\ IsNum(matchIn.features.memoryRatio)
             => \A w \in RatioAlternatives :
                   NoLessCredit(matchIn.features.memoryRatio,
                                matchOut.value.memoryRatio, w,
                                ComprehensiveScores(matchOut.profile,
                                    [matchIn.features EXCEPT !.memoryRatio = w]).memoryRatio,
                                DeviceProfiles[matchOut.profile].cpu.memoryRatio)
    /\ ( /\ MatchReturned("calculateMatchScore")
         /\ matchIn.bands = NoValue
         /\ matchIn.cpuFeatures # NoValue
         /\ IsNum(matchIn.cpuFeatures.memRatio) )
       => \A w \in RatioAlternatives :
             NoLessCredit(matchIn.cpuFeatures.memRatio, matchOut.value.cpu, w,
                          CpuScore(matchOut.profile,
                                   [matchIn.cpuFeatures EXCEPT !.memRatio = w],
                                   matchIn.webglAnalysis, matchIn.webgpuAnalysis),
                          DeviceProfiles[matchOut.profile].cpu.memoryRatio)

(***************************************************************************)
(* Properties of the known-topology snapping                               *)
(***************************************************************************)
\* the canonical splits of a hardware concurrency: 4+4; 4+6 and 6+4; 6+6
CanonicalSplits(H) ==
    IF H = 8 THEN {<<4, 4>>}
    ELSE IF H = 10 THEN {<<4, 6>>, <<6, 4>>}
    ELSE IF H = 12 THEN {<<6, 6>>}
    ELSE {}

\* both counts of c are within one core of the split s
WithinOne(c, s) == Abs(c[1] - s[1]) <= 1 /\ Abs(c[2] - s[2]) <= 1

\* the scaled counts the analysis may have had before the snapping
ScaledBeforeSnap ==
    {ScaleCounts(clusterOut.rawPCoreCount, clusterOut.rawECoreCount,
                 clusterOut.hardwareConcurrency, Len(clusterIn.results), fp) :
        fp \in FPChoices(clusterOut.hardwareConcurrency, Len(clusterIn.results))}

\* C27: the topology snapping changes the scaled split only when the
\* hardware concurrency is 8, 10 or 12 and both scaled counts are within 1
\* of a canonical split for that value (4+4; 4+6 or 6+4; 6+6), and then it
\* returns that split; in every other case the counts are returned as they
\* were scaled.
C27_SnapOnlyNearCanonical ==
    ClusterDone =>
        \E c \in ScaledBeforeSnap :
            \/ <<clusterOut.pCoreCount, clusterOut.eCoreCount>> = c
            \/ /\ <<clusterOut.pCoreCount, clusterOut.eCoreCount>>
                    \in CanonicalSplits(clusterOut.hardwareConcurrency)
               /\ WithinOne(c, <<clusterOut.pCoreCount, clusterOut.eCoreCount>>)

\* a 5 + 5 split of ten threads snapped to 4 + 6
C27_Witness ==
    /\ ClusterDone
    /\ clusterOut.hardwareConcurrency = 10
    /\ <<clusterOut.pCoreCount, clusterOut.eCoreCount>> = <<4, 6>>
    /\ ScaledBeforeSnap = {<<5, 5>>}

(***************************************************************************)
(* Properties of the method field of the cluster analysis                  *)
(***************************************************************************)
\* the split indexes of the median-based procedure: the size of the fast
\* cluster, or the middle of the list when no jump and no cluster gap
\* decides
MedianSplitIndexes ==
    {FastClusterLen(clusterIn.results), Len(clusterIn.results) \div 2}

\* C28: the method field names the procedure whose split index was used
\* for the returned counts: 'inflection_point' only when the index used is
\* the index of the largest jump between adjacent durations, 'clustering'
\* only when the index used is the one of the median-based split.
C28_MethodNamesTheSplit ==
    ClusterDone =>
        /\ clusterOut.method = "inflection_point"
           => clusterOut.inflectionIndex = JumpIndex
        /\ clusterOut.method = "clustering"
           => clusterOut.inflectionIndex \in MedianSplitIndexes

(***************************************************************************)
(* Properties of the split index and of the returned counts                *)
(***************************************************************************)
\* C29: for at least two valid results with positive durations the split
\* index lies in 1..n-1, so both raw clusters are non-empty and
\* rawPCoreCount + rawECoreCount = n; and the returned counts satisfy
\* pCoreCount >= 1, eCoreCount >= 0 and
\* pCoreCount + eCoreCount <= max(H, n).
C29_SplitAndCountsInBounds ==
    ClusterDone =>
        \A n \in {Len(clusterIn.results)} :
            /\ clusterOut.inflectionIndex >= 1
            /\ clusterOut.inflectionIndex <= n - 1
            /\ clusterOut.rawPCoreCount = clusterOut.inflectionIndex
            /\ clusterOut.rawECoreCount >= 1
            /\ clusterOut.rawPCoreCount + clusterOut.rawECoreCount = n
            /\ clusterOut.pCoreCount >= 1
            /\ clusterOut.eCoreCount >= 0
            /\ clusterOut.pCoreCount + clusterOut.eCoreCount
                 <= Max(clusterOut.hardwareConcurrency, n)

\* every duration is the same, so the fast cluster of the median split is
\* the whole list, and more results than hardware threads were analysed
C29_Witness ==
    /\ ScalingApplied
    /\ FastClusterLen(clusterIn.results) = Len(clusterIn.results)
    /\ clusterOut.inflectionIndex = Len(clusterIn.results) \div 2
    /\ clusterOut.pCoreCount >= 1

(***************************************************************************)
(* DeviceSignatureDatabase learning data, device-database.js 1058-1110:    *)
(* learnDeviceSignature and importLearningData on one database.  Of a      *)
(* signature the device name and the timestamp are kept.                   *)
(***************************************************************************)
DeviceNames == {"MacBook Air M1", "Pixel 8"}
MaxSignatures == 10            \* if (signatures.length > 10)
MaxLearnClock == 11            \* the signatures learned in one run, at most
ImportLengths == {2, 12}       \* the lengths of the lists in an imported file

Signature(deviceName, timestamp) ==
    [deviceName |-> deviceName, timestamp |-> timestamp]

\* a list of k signatures as an earlier export wrote it
ExportedList(deviceName, k) == [t \in 1..k |-> Signature(deviceName, t)]

\* JSON.parse(jsonData) for a document that is an object of lists: the
\* device names it has and the length of their lists
ImportDocuments == [names : (SUBSET DeviceNames) \ {{}}, len : ImportLengths]

\* this.learningData = new Map(), device-database.js 9
LearnInit ==
    /\ learningData = [name \in DeviceNames |-> [has |-> FALSE, signatures |-> << >>]]
    /\ learnClock = 1
    /\ importOut = "none"
    /\ ClusterIdle /\ ClassifyIdle /\ MemIdle /\ WorkerIdle /\ MatchIdle
    /\ CalIdle

\* signatures.push(signature); if (signatures.length > 10) signatures.shift()
PushAndTrim(signatures, signature) ==
    LET pushed == Append(signatures, signature)
    IN IF Len(pushed) > MaxSignatures THEN Tail(pushed) ELSE pushed

\* learnDeviceSignature(deviceName, ...), device-database.js 1061-1083
LearnDeviceSignature(deviceName) ==
    /\ learnClock <= MaxLearnClock
    /\ learningData' =
          [learningData EXCEPT ![deviceName] =
              [has |-> TRUE,
               signatures |-> PushAndTrim(learningData[deviceName].signatures,
                                          Signature(deviceName, learnClock))]]
    /\ learnClock' = learnClock + 1
    /\ UNCHANGED importOut
    /\ UNCHANGED <<clusterVars, classifyVars, memVars, workerVars, matchVars,
                   calVars>>

\* importLearningData(jsonData) for a document that parses,
\* device-database.js 1099-1105: every list of the document is stored as
\* it is
ImportLearningData(doc) ==
    /\ learningData' =
          [name \in DeviceNames |->
              IF name \in doc.names
              THEN [has |-> TRUE, signatures |-> ExportedList(name, doc.len)]
              ELSE learningData[name]]
    /\ importOut' = "true"
    /\ UNCHANGED learnClock
    /\ UNCHANGED <<clusterVars, classifyVars, memVars, workerVars, matchVars,
                   calVars>>

\* importLearningData(jsonData) when JSON.parse throws,
\* device-database.js 1106-1109
ImportLearningDataFails ==
    /\ importOut' = "false"
    /\ UNCHANGED <<learningData, learnClock>>
    /\ UNCHANGED <<clusterVars, classifyVars, memVars, workerVars, matchVars,
                   calVars>>

LearnNext ==
    \/ \E deviceName \in DeviceNames : LearnDeviceSignature(deviceName)
    \/ \E doc \in ImportDocuments : ImportLearningData(doc)
    \/ ImportLearningDataFails

SpecLearn == LearnInit /\ [][LearnNext]_vars

\* every stored list has at most ten signatures
AtMostTenStored ==
    \A name \in DeviceNames :
        Len(learningData[name].signatures) <= MaxSignatures

\* the last k elements of s
Newest(s, k) == SubSeq(s, Max(1, Len(s) - k + 1), Len(s))

\* a step of learnDeviceSignature leaves the ten most recent signatures of
\* the device, the new one last
LearnKeepsNewest ==
    \A name \in DeviceNames :
        ( /\ learnClock' = learnClock + 1
          /\ learningData'[name] # learningData[name] )
        => learningData'[name].signatures
             = Newest(Append(learningData[name].signatures,
                             Signature(name, learnClock)), MaxSignatures)

\* C30: after any sequence of learnDeviceSignature and importLearningData
\* calls every device name holds at most 10 stored signatures, and
\* learnDeviceSignature evicts the oldest signature first, so the stored
\* list is always the most recent signatures in insertion order.
C30_AtMostTenNewest == [](AtMostTenStored) /\ [][LearnKeepsNewest]_vars

=============================================================================
